---------------------------- MODULE Spec2Model ----------------------------
(***************************************************************************)
(* AuraSense SFSVC: the multi-lane engine, its SPSC ring transport and the *)
(* double-buffered semantic snapshot, as state machines.                   *)
(*                                                                         *)
(* Groups of state, each with its own specification:                       *)
(*   SpecSnap   the double-buffered snapshot (aurasense_yolo_bond.h,       *)
(*              rt_core.cpp), one publisher and one reader, field by field *)
(*   SpecRing   LockFreeQueue<T,N> (lockfree_queue.h), one producer and    *)
(*              one consumer, one atomic access per step                   *)
(*   Spec       MultiRateEngine, in either of the repository's two         *)
(*              implementations (engine.cpp, engine_backup.cpp);           *)
(*   SpecEngine the same, engine.cpp only                                  *)
(*   SpecFilter TemporalConsistencyFilter (aurasense_yolo_bond.h)          *)
(*   SpecGate   GatingEngine (gating_engine.cpp) and its caller            *)
(*   SpecL3     lanes 1 and 3: gating, detector, publish                   *)
(*   SpecCfg    the engine started with lanes disabled in its EngineConfig *)
(***************************************************************************)
EXTENDS Integers, Sequences, FiniteSets, TLC

VARIABLES
    \* ---- double-buffered snapshot ----
    snapImpl,            \* "bond": YoloSharedState; "rtcore": g_yolo_snapshots
    buffers_,            \* the two slots
    active_,             \* active_ / g_yolo_read_index
    g_yolo_write_index,  \* rt_core.cpp only
    write_seq_,          \* YoloSharedState only
    wr_pc, wr_idx, wr_seq, npub,
    rd_pc, rd_idx, rd_snap,
    rd_at,               \* publishes completed when the current read began
    rs_pc, rs_i, nreset, \* the caller of rt_core_yolo_reset
    \* ---- SPSC ring ----
    tail_, head_, cached_head_, cached_tail_,
    push_count_, pop_count_, drop_count_,
    buffer_,
    pr_pc, pr_tail, pr_item, pr_done,
    co_pc, co_head, co_out, co_calls,
    pushed, popped,
    \* ---- MultiRateEngine ----
    impl,                \* "engine": engine.cpp; "backup": engine_backup.cpp
    running_,            \* std::atomic<bool> running_
    handle,              \* t1_..t5_, callback_thread_: "empty", "joinable"
    terminated,          \* std::terminate() was called
    lane_pc,             \* where each lane thread stands
    m_pc, m_last, npush,     \* the thread that owns the engine
    e_pc, e_fid, nemerg,                    \* a thread calling _emergency_stop
    frame_id_,           \* std::atomic<uint64_t> frame_id_
    g_frame_count,       \* rt_core.cpp's frame counter
    q, qdrop,            \* camera/sig/yolo/vis/uplink rings and their drop counts
    cb_buf, cb_tail, cb_head, cb_cached_head, cb_cached_tail, cb_drop,
    cb_mutex,            \* s_callback_push_mutex: 0, or the lane holding it
    cb_ptail,            \* the tail each pusher loaded
    l1_job, l1_out, l4_job,
    \* history, read by the properties only
    assigned, l1_log, dispatched, ctrl_acc, ctrl_rej, last_in, regressed,
    \* ---- TemporalConsistencyFilter ----
    consec_, gap_,       \* consec_front_.., gap_front_.., by channel
    last_seq_,
    nfilter,             \* filter() calls made
    f_seen,              \* a snapshot was presented since construction or reset
    f_hits,              \* the channels at or over threshold in the last snapshot
    f_dup,               \* the last call presented the snapshot of the call before
    \* ---- GatingEngine ----
    confidence_threshold_, max_skip_frames_, max_skip_time_ms_,
    critical_crack_threshold_,
    frames_since_last_infer_, last_infer_time_ms_,
    current_skip_streak_, max_skip_streak_,
    total_decisions_, infer_count_, skip_count_,
    current_skip_streak_snapshot_, max_skip_streak_snapshot_,
    gd,                  \* the GatingDecision the last decide() returned
    g_args,              \* the arguments of that call
    g_last,              \* the last call made: "new", "decide", "reset", "config"
    g_now,               \* the last reading of the clock, now_ms()
    g_inferred, g_infer_at,  \* a run since construction or reset, and its time
    g_since_reset,       \* decide() calls since the last reset(), -1 before one
    ndecide,             \* decide() calls made
    \* ---- lane 3 ----
    l3_log,              \* what lane 3 did with each job it popped
    \* ---- EngineConfig ----
    cfg_,                \* the lanes K whose enable_laneK the caller sets true
    \* ---- sensing kernel (rt_core.cpp) and its callers ----
    assert_on,           \* the build keeps assert(): NDEBUG is not defined
    target_w, target_h,  \* TARGET_WIDTH, TARGET_HEIGHT of the build
    g_curr_gray_u8, g_prev_gray_u8,
    k_pc,                \* where the call in progress stands
    k_in,                \* its arguments (the BGR frame, height, width), and the
                         \* snapshot its fusion read
    k_t,                 \* current_time_s it read, in ms
    p_y, rows_processed, on_count, off_count, crack_accumulator,
    g_on_history, g_off_history,
    output,              \* the ControlOutput of the last call that returned
    decision,            \* the ControlDecision lane 1 made of it
    k_yolo,              \* g_yolo_snapshots[g_yolo_read_index]
    k_now,               \* the last reading of get_time_seconds(), in ms
    k_log,               \* the calls that returned: frame, predecessor, result
    nkernel, nyolo,      \* sensing calls begun, snapshots published
    \* ---- YoloBondingLayer ----
    fusion,              \* the FusionResult of the last fuse()
    fu_in,               \* the arguments of that call
    nfuse,               \* fuse() calls made
    \* ---- SignatureBank ----
    signatures_, next_id_,
    total_matches_, total_registrations_, total_prunes_,
    sb_now,              \* what sb_now_seconds() returns
    sb_reg,              \* the descriptors of the last register_signature
    sb_last,             \* the last call, its arguments and what it returned
    nsb,                 \* calls made
    \* ---- a published record pointer ----
    ss_ptr,              \* semantic_state_ / last_sig_match_
    ss_heap,             \* the records, by address
    ss_wpc, ss_new, ss_old,          \* the publishing lane
    ss_rpc, ss_p, ss_got,            \* the reading lane
    ss_dangling,         \* the record at ss_p was deleted after the load
    ss_read_deleted,     \* a read went through the address of a deleted record
    ss_nx, ss_nl,        \* exchanges and loads completed
    \* ---- LockFreeQueue: push_wait and the status queries ----
    pw_pc, pw_item, pw_spins,
    pw_true, pw_false,   \* push_wait calls that returned true, false
    npw,                 \* push_wait calls begun
    ob_pc, ob_t,         \* the observing thread inside size_approx()
    ob_stats,            \* the Stats it returned last
    nob,                 \* status queries completed
    \* ---- DroneMiddleware ----
    current_mode_, last_status_, transition_count_,
    emergency_land_active_, emergency_action_,
    ndm                  \* calls made on the middleware

snapVars == <<snapImpl, buffers_, active_, g_yolo_write_index, write_seq_,
              wr_pc, wr_idx, wr_seq, npub, rd_pc, rd_idx, rd_snap,
              rd_at>>

ringVars == <<tail_, head_, cached_head_, cached_tail_,
              push_count_, pop_count_, drop_count_, buffer_,
              pr_pc, pr_tail, pr_item, pr_done,
              co_pc, co_head, co_out, co_calls, pushed, popped>>

lifeVars == <<running_, handle, terminated, lane_pc>>
mainVars == <<m_pc, m_last, npush>>
emVars   == <<e_pc, e_fid, nemerg>>
cbVars   == <<cb_buf, cb_tail, cb_head, cb_cached_head, cb_cached_tail,
              cb_drop, cb_mutex, cb_ptail>>
l1Vars   == <<l1_job, l1_out>>
histVars == <<assigned, l1_log, dispatched, ctrl_acc, ctrl_rej, last_in,
              regressed>>

engVars == <<impl, lifeVars, mainVars, emVars, frame_id_, g_frame_count,
             q, qdrop, cbVars, l1Vars, l4_job, histVars>>

rsVars == <<rs_pc, rs_i, nreset>>

filtVars == <<consec_, gap_, last_seq_, nfilter, f_seen, f_hits, f_dup>>

gateCfg   == <<confidence_threshold_, max_skip_frames_, max_skip_time_ms_,
               critical_crack_threshold_>>
gateState == <<frames_since_last_infer_, last_infer_time_ms_,
               current_skip_streak_, max_skip_streak_>>
gateStats == <<total_decisions_, infer_count_, skip_count_,
               current_skip_streak_snapshot_, max_skip_streak_snapshot_>>
gateHist  == <<gd, g_args, g_last, g_now, g_inferred, g_infer_at,
               g_since_reset, ndecide>>
gateVars  == <<gateCfg, gateState, gateStats, gateHist>>

l3Vars == <<l3_log, cfg_>>

pipeVars == <<p_y, rows_processed, on_count, off_count, crack_accumulator,
              g_on_history, g_off_history>>
kVars == <<assert_on, target_w, target_h, g_curr_gray_u8, g_prev_gray_u8,
           k_pc, k_in, k_t, pipeVars, output, decision, k_yolo, k_now,
           k_log, nkernel, nyolo>>

bondVars == <<fusion, fu_in, nfuse>>

sbVars == <<signatures_, next_id_, total_matches_, total_registrations_,
            total_prunes_, sb_now, sb_reg, sb_last, nsb>>

\* The components that follow the bonding layer in this module.
ptrVars == <<ss_ptr, ss_heap, ss_wpc, ss_new, ss_old, ss_rpc, ss_p, ss_got,
             ss_dangling, ss_read_deleted, ss_nx, ss_nl>>

rqVars == <<pw_pc, pw_item, pw_spins, pw_true, pw_false, npw,
            ob_pc, ob_t, ob_stats, nob>>

dmVars == <<current_mode_, last_status_, transition_count_,
            emergency_land_active_, emergency_action_, ndm>>

tailVars == <<sbVars, ptrVars, rqVars, dmVars>>

vars == <<snapVars, rsVars, ringVars, engVars, filtVars, gateVars, l3Vars,
          kVars, bondVars, tailVars>>

\* What an action of one group leaves alone: the other groups.
notSnap == <<rsVars, ringVars, engVars, filtVars, gateVars, l3Vars,
            kVars, bondVars, tailVars>>
notRing == <<snapVars, rsVars, engVars, filtVars, gateVars, l3Vars,
            kVars, bondVars, tailVars>>
notEng  == <<snapVars, rsVars, ringVars, filtVars, gateVars, l3Vars,
            kVars, bondVars, tailVars>>
notFilt == <<snapVars, rsVars, ringVars, engVars, gateVars, l3Vars,
            kVars, bondVars, tailVars>>
notGate == <<snapVars, rsVars, ringVars, engVars, filtVars, l3Vars,
            kVars, bondVars, tailVars>>
notRs   == <<ringVars, engVars, filtVars, gateVars, l3Vars,
            kVars, bondVars, tailVars>>

(***************************************************************************)
(* Bounds of the model.                                                    *)
(***************************************************************************)
MaxPublish == 3      \* publishes by the snapshot writer
MaxReset   == 1      \* rt_core_yolo_reset calls
RingN      == 2      \* ring capacity N (64, 32, 128 in the engine)
MaxPush    == 4      \* try_push calls by the ring's producer
MaxFrames  == 2      \* push_frame calls
MaxEmerg   == 1      \* _emergency_stop() calls
MaxFilter  == 5      \* filter() calls
MaxSeq     == 2      \* highest sequence_id presented to the filter
MaxDecide  == 4      \* decide() calls on the gating engine
MaxTime    == 4      \* latest clock reading, in ms

Min(a, b) == IF a < b THEN a ELSE b

IsPrefix(s, t) == Len(s) <= Len(t) /\ \A i \in 1..Len(s) : s[i] = t[i]

(***************************************************************************)
(*                  Double-buffered semantic snapshot                      *)
(***************************************************************************)

\* A snapshot record: sequence_id, valid, and two body fields standing for
\* the body of the struct (timestamp_s first, the risk fields after it).
\* A publish writes the publish's own number into both body fields.
ZeroSlot == [seq |-> 0, valid |-> FALSE, a |-> 0, b |-> 0]

\* The summary handed to the k-th publish (its sequence_id is the caller's, 0).
Summary(k) == [seq |-> 0, valid |-> TRUE, a |-> k, b |-> k]

InitSnapVars ==
    /\ buffers_ = [i \in 0..1 |-> ZeroSlot]
    /\ active_ = 0
    /\ g_yolo_write_index = 1
    /\ write_seq_ = 0
    /\ wr_pc = "idle" /\ wr_idx = 0 /\ wr_seq = 0 /\ npub = 0
    /\ rd_pc = "idle" /\ rd_idx = 0 /\ rd_snap = ZeroSlot /\ rd_at = 0
    /\ rs_pc = "idle" /\ rs_i = 0 /\ nreset = 0

wrLocal == <<wr_pc, wr_idx, wr_seq, npub>>
rdLocal == <<rd_pc, rd_idx, rd_snap, rd_at>>

\* The publishes that have completed (the writer is one thread).
Completed == IF wr_pc = "idle" THEN npub ELSE npub - 1

\* ---- YoloSharedState::publish ----
\* write_idx = 1 - active_.load(); seq = write_seq_.fetch_add(1)
PublishBegin ==
    /\ snapImpl = "bond" /\ wr_pc = "idle" /\ npub < MaxPublish
    /\ wr_idx' = 1 - active_
    /\ wr_seq' = write_seq_
    /\ write_seq_' = write_seq_ + 1
    /\ npub' = npub + 1
    /\ wr_pc' = "copy_hdr"
    /\ UNCHANGED <<snapImpl, buffers_, active_, g_yolo_write_index, rdLocal, notSnap>>

\* buffers_[write_idx] = summary, one field group per step
PublishCopy ==
    /\ snapImpl = "bond" /\ wr_pc \in {"copy_hdr", "copy_a", "copy_b"}
    /\ LET s == Summary(npub) IN
       CASE wr_pc = "copy_hdr" ->
              /\ buffers_' = [buffers_ EXCEPT ![wr_idx].seq = s.seq,
                                              ![wr_idx].valid = s.valid]
              /\ wr_pc' = "copy_a"
         [] wr_pc = "copy_a" ->
              /\ buffers_' = [buffers_ EXCEPT ![wr_idx].a = s.a]
              /\ wr_pc' = "copy_b"
         [] wr_pc = "copy_b" ->
              /\ buffers_' = [buffers_ EXCEPT ![wr_idx].b = s.b]
              /\ wr_pc' = "stamp"
    /\ UNCHANGED <<snapImpl, active_, g_yolo_write_index, write_seq_,
                   wr_idx, wr_seq, npub, rdLocal, notSnap>>

\* buffers_[write_idx].sequence_id = seq
PublishStamp ==
    /\ snapImpl = "bond" /\ wr_pc = "stamp"
    /\ buffers_' = [buffers_ EXCEPT ![wr_idx].seq = wr_seq]
    /\ wr_pc' = "flip"
    /\ UNCHANGED <<snapImpl, active_, g_yolo_write_index, write_seq_,
                   wr_idx, wr_seq, npub, rdLocal, notSnap>>

\* A publish that ends without storing the active index.
PublishFlip_skipped ==
    /\ snapImpl = "bond" /\ wr_pc = "flip"
    /\ wr_pc' = "idle"
    /\ UNCHANGED <<snapImpl, buffers_, active_, g_yolo_write_index, write_seq_,
                   wr_idx, wr_seq, npub, rdLocal, notSnap>>

\* fence; active_.store(write_idx, release)
PublishFlip ==
    /\ snapImpl = "bond" /\ wr_pc = "flip"
    /\ active_' = wr_idx
    /\ wr_pc' = "idle"
    /\ UNCHANGED <<snapImpl, buffers_, g_yolo_write_index, write_seq_,
                   wr_idx, wr_seq, npub, rdLocal, notSnap>>

\* ---- YoloSharedState::read ----
ReadLoad ==
    /\ snapImpl = "bond" /\ rd_pc = "idle"
    /\ rd_idx' = active_
    /\ rd_at' = Completed
    /\ rd_pc' = "copy_hdr"
    /\ UNCHANGED <<snapImpl, buffers_, active_, g_yolo_write_index, write_seq_,
                   wrLocal, rd_snap, notSnap>>

\* YoloSummary snap = buffers_[read_idx], one field group per step
ReadCopy ==
    /\ snapImpl = "bond" /\ rd_pc \in {"copy_hdr", "copy_a", "copy_b"}
    /\ LET s == buffers_[rd_idx] IN
       CASE rd_pc = "copy_hdr" ->
              /\ rd_snap' = [rd_snap EXCEPT !.seq = s.seq, !.valid = s.valid]
              /\ rd_pc' = "copy_a"
         [] rd_pc = "copy_a" ->
              /\ rd_snap' = [rd_snap EXCEPT !.a = s.a]
              /\ rd_pc' = "copy_b"
         [] rd_pc = "copy_b" ->
              /\ rd_snap' = [rd_snap EXCEPT !.b = s.b]
              /\ rd_pc' = "done"
    /\ UNCHANGED <<snapImpl, buffers_, active_, g_yolo_write_index, write_seq_,
                   wrLocal, rd_idx, rd_at, notSnap>>

\* return snap
ReadReturn ==
    /\ rd_pc = "done"
    /\ rd_pc' = "idle"
    /\ UNCHANGED <<snapImpl, buffers_, active_, g_yolo_write_index, write_seq_,
                   wrLocal, rd_idx, rd_snap, rd_at, notSnap>>

\* ---- rt_core_yolo_publish ----
\* write_idx = g_yolo_write_index.load()
RtPublishBegin ==
    /\ snapImpl = "rtcore" /\ wr_pc = "idle" /\ npub < MaxPublish
    /\ wr_idx' = g_yolo_write_index
    /\ npub' = npub + 1
    /\ wr_pc' = "write_a"
    /\ UNCHANGED <<snapImpl, buffers_, active_, g_yolo_write_index, write_seq_,
                   wr_seq, rdLocal, notSnap>>

\* write_snap->timestamp_s = ...; ...; write_snap->valid = true
RtPublishWrite ==
    /\ snapImpl = "rtcore" /\ wr_pc \in {"write_a", "write_b", "write_valid"}
    /\ CASE wr_pc = "write_a" ->
              /\ buffers_' = [buffers_ EXCEPT ![wr_idx].a = npub]
              /\ wr_pc' = "write_b"
         [] wr_pc = "write_b" ->
              /\ buffers_' = [buffers_ EXCEPT ![wr_idx].b = npub]
              /\ wr_pc' = "write_valid"
         [] wr_pc = "write_valid" ->
              /\ buffers_' = [buffers_ EXCEPT ![wr_idx].valid = TRUE]
              /\ wr_pc' = "exchange"
    /\ UNCHANGED <<snapImpl, active_, g_yolo_write_index, write_seq_,
                   wr_idx, wr_seq, npub, rdLocal, notSnap>>

\* old = g_yolo_read_index.exchange(write_idx); g_yolo_write_index.store(old)
\* (the write index is the publisher's own: both stores are one step)
RtPublishSwap ==
    /\ snapImpl = "rtcore" /\ wr_pc = "exchange"
    /\ active_' = wr_idx
    /\ g_yolo_write_index' = active_
    /\ wr_pc' = "idle"
    /\ UNCHANGED <<snapImpl, buffers_, write_seq_, wr_idx, wr_seq, npub, rdLocal, notSnap>>

\* ---- read_yolo_snapshot ----
RtReadLoad ==
    /\ snapImpl = "rtcore" /\ rd_pc = "idle"
    /\ rd_idx' = active_
    /\ rd_at' = Completed
    /\ rd_pc' = "copy_a"
    /\ UNCHANGED <<snapImpl, buffers_, active_, g_yolo_write_index, write_seq_,
                   wrLocal, rd_snap, notSnap>>

\* return g_yolo_snapshots[idx], one field group per step (valid is last)
RtReadCopy ==
    /\ snapImpl = "rtcore" /\ rd_pc \in {"copy_a", "copy_b", "copy_valid"}
    /\ LET s == buffers_[rd_idx] IN
       CASE rd_pc = "copy_a" ->
              /\ rd_snap' = [rd_snap EXCEPT !.a = s.a]
              /\ rd_pc' = "copy_b"
         [] rd_pc = "copy_b" ->
              /\ rd_snap' = [rd_snap EXCEPT !.b = s.b]
              /\ rd_pc' = "copy_valid"
         [] rd_pc = "copy_valid" ->
              /\ rd_snap' = [rd_snap EXCEPT !.valid = s.valid]
              /\ rd_pc' = "done"
    /\ UNCHANGED <<snapImpl, buffers_, active_, g_yolo_write_index, write_seq_,
                   wrLocal, rd_idx, rd_at, notSnap>>

\* ---- rt_core_yolo_reset ----
\* for (i = 0; i < 2; ++i) { g_yolo_snapshots[i].valid = false;
\*                           g_yolo_snapshots[i].timestamp_s = 0.0; }
RtResetBegin ==
    /\ snapImpl = "rtcore" /\ rs_pc = "idle" /\ nreset < MaxReset
    /\ nreset' = nreset + 1
    /\ rs_i' = 0
    /\ rs_pc' = "valid"
    /\ UNCHANGED <<snapVars, notRs>>

RtResetWrite ==
    /\ snapImpl = "rtcore" /\ rs_pc \in {"valid", "timestamp"}
    /\ IF rs_pc = "valid"
       THEN /\ buffers_' = [buffers_ EXCEPT ![rs_i].valid = FALSE]
            /\ rs_pc' = "timestamp"
            /\ UNCHANGED rs_i
       ELSE /\ buffers_' = [buffers_ EXCEPT ![rs_i].a = 0]
            /\ rs_pc' = IF rs_i = 1 THEN "idle" ELSE "valid"
            /\ rs_i' = IF rs_i = 1 THEN rs_i ELSE rs_i + 1
    /\ UNCHANGED <<snapImpl, active_, g_yolo_write_index, write_seq_,
                   wrLocal, rdLocal, nreset, notRs>>

NextSnap ==
    \/ PublishBegin \/ PublishCopy \/ PublishStamp \/ PublishFlip
    \/ ReadLoad \/ ReadCopy \/ ReadReturn
    \/ RtPublishBegin \/ RtPublishWrite \/ RtPublishSwap
    \/ RtReadLoad \/ RtReadCopy

(***************************************************************************)
(*                     LockFreeQueue<T, N>  (SPSC ring)                    *)
(***************************************************************************)

Raw     == [kind |-> "raw", v |-> 0]      \* never constructed, or destroyed by a pop
Partial == [kind |-> "partial", v |-> 0]  \* placement-new in progress
NoItem  == [kind |-> "none", v |-> 0]
Item(n) == [kind |-> "item", v |-> n]

InitRingVars ==
    /\ tail_ = 0 /\ head_ = 0 /\ cached_head_ = 0 /\ cached_tail_ = 0
    /\ push_count_ = 0 /\ pop_count_ = 0 /\ drop_count_ = 0
    /\ buffer_ = [i \in 0..(RingN - 1) |-> Raw]
    /\ pr_pc = "idle" /\ pr_tail = 0 /\ pr_item = NoItem /\ pr_done = 0
    /\ co_pc = "idle" /\ co_head = 0 /\ co_out = NoItem /\ co_calls = 0
    /\ pushed = <<>> /\ popped = <<>>

\* MASK = N - 1; index & MASK
Slot(i) == i % RingN

\* push_impl: tail - cached_head_ >= N
IsFull_gt(tail, cachedHead) == tail - cachedHead > RingN
IsFull(tail, cachedHead) == tail - cachedHead >= RingN

\* try_pop: head == cached_tail_
IsEmpty_gt(head, cachedTail) == head > cachedTail
IsEmpty(head, cachedTail) == head = cachedTail

prLocal == <<pr_pc, pr_tail, pr_item, pr_done>>
coLocal == <<co_pc, co_head, co_out, co_calls>>
ringStats == <<push_count_, pop_count_, drop_count_>>

\* ---- try_push(item) -> push_impl, producer thread ----
\* tail = tail_.load(relaxed); fast-path test against cached_head_
PushLoad ==
    /\ pr_pc = "idle" /\ pr_done < MaxPush
    /\ pw_pc = "idle"
    /\ pr_item' = Item(pr_done + 1)
    /\ pr_tail' = tail_
    /\ pr_pc' = IF IsFull(tail_, cached_head_) THEN "refresh" ELSE "construct"
    /\ UNCHANGED <<tail_, head_, cached_head_, cached_tail_, ringStats, buffer_,
                   pr_done, coLocal, pushed, popped, notRing>>

\* cached_head_ = head_.load(acquire); still full: drop_count_++, return false
PushRefresh ==
    /\ pr_pc = "refresh"
    /\ cached_head_' = head_
    /\ IF IsFull(pr_tail, head_)
       THEN /\ drop_count_' = drop_count_ + 1
            /\ pr_done' = pr_done + 1
            /\ pr_pc' = "idle"
       ELSE /\ pr_pc' = "construct"
            /\ UNCHANGED <<drop_count_, pr_done>>
    /\ UNCHANGED <<tail_, head_, cached_tail_, push_count_, pop_count_, buffer_,
                   pr_tail, pr_item, coLocal, pushed, popped, notRing>>

\* ::new (&buffer_[tail & MASK]) T(item): begins, then completes
PushConstruct ==
    /\ pr_pc \in {"construct", "constructing"}
    /\ IF pr_pc = "construct"
       THEN /\ buffer_' = [buffer_ EXCEPT ![Slot(pr_tail)] = Partial]
            /\ pr_pc' = "constructing"
       ELSE /\ buffer_' = [buffer_ EXCEPT ![Slot(pr_tail)] = pr_item]
            /\ pr_pc' = "publish"
    /\ UNCHANGED <<tail_, head_, cached_head_, cached_tail_, ringStats,
                   pr_tail, pr_item, pr_done, coLocal, pushed, popped, notRing>>

\* tail_.store(tail + 1, release); push_count_++; return true
PushPublish ==
    /\ pr_pc = "publish"
    /\ tail_' = pr_tail + 1
    /\ push_count_' = push_count_ + 1
    /\ pushed' = Append(pushed, pr_item)
    /\ pr_done' = pr_done + 1
    /\ pr_pc' = "idle"
    /\ UNCHANGED <<head_, cached_head_, cached_tail_, pop_count_, drop_count_,
                   buffer_, pr_tail, pr_item, coLocal, popped, notRing>>

\* ---- try_pop(out), consumer thread ----
\* head = head_.load(relaxed); fast-path test against cached_tail_
PopLoad ==
    /\ co_pc = "idle"
    /\ co_head' = head_
    /\ co_calls' = Min(co_calls + 1, MaxPush + 1)
    /\ co_pc' = IF IsEmpty(head_, cached_tail_) THEN "refresh" ELSE "read"
    /\ UNCHANGED <<tail_, head_, cached_head_, cached_tail_, ringStats, buffer_,
                   co_out, prLocal, pushed, popped, notRing>>

\* cached_tail_ = tail_.load(acquire); still empty: return false
PopRefresh ==
    /\ co_pc = "refresh"
    /\ cached_tail_' = tail_
    /\ co_pc' = IF IsEmpty(co_head, tail_) THEN "idle" ELSE "read"
    /\ UNCHANGED <<tail_, head_, cached_head_, ringStats, buffer_,
                   co_head, co_out, co_calls, prLocal, pushed, popped, notRing>>

\* out = std::move(*elem); elem->~T()
PopRead ==
    /\ co_pc = "read"
    /\ co_out' = buffer_[Slot(co_head)]
    /\ buffer_' = [buffer_ EXCEPT ![Slot(co_head)] = Raw]
    /\ co_pc' = "publish"
    /\ UNCHANGED <<tail_, head_, cached_head_, cached_tail_, ringStats,
                   co_head, co_calls, prLocal, pushed, popped, notRing>>

\* head_.store(head + 1, release); pop_count_++; return true
PopPublish ==
    /\ co_pc = "publish"
    /\ head_' = co_head + 1
    /\ pop_count_' = pop_count_ + 1
    /\ popped' = Append(popped, co_out)
    /\ co_pc' = "idle"
    /\ UNCHANGED <<tail_, cached_head_, cached_tail_, push_count_, drop_count_,
                   buffer_, co_head, co_out, co_calls, prLocal, pushed, notRing>>

NextRing ==
    \/ PushLoad \/ PushRefresh \/ PushConstruct \/ PushPublish
    \/ PopLoad \/ PopRefresh \/ PopRead \/ PopPublish

(***************************************************************************)
(*                           MultiRateEngine                               *)
(*                                                                         *)
(* The repository holds two implementations of the class: engine.cpp and   *)
(* engine_backup.cpp; impl says which one runs.  The camera, signature,    *)
(* YOLO, visualisation and uplink rings each have one producer and one     *)
(* consumer, so a push or a pop on them is one step.  The callback ring    *)
(* has several producers: a push on it is two steps (load the tail and     *)
(* test for full; construct the slot and store the tail).  Both user       *)
(* callbacks are taken as supplied, as main.cpp and server.cpp do.         *)
(***************************************************************************)

Lanes   == 1..6                    \* t1_..t5_ and callback_thread_ (6)
Emerg   == 7                       \* the caller of _emergency_stop, as a pusher
Pushers == {1, 4, Emerg}
QNames  == {"cam", "sig", "yolo", "vis", "up"}
Stages  == {"L2", "L3", "L4", "L5", "CONTROL", "UPLINK"}

RawJob == [type |-> "raw", fid |-> 0, src |-> 0]
NoJob  == [type |-> "none", fid |-> 0, src |-> 0]
NoFrame == [type |-> "none", fid |-> 0]
\* A Lane2Job, Lane3Job or VisJob: its frame_id.
FrameJob(fid) == [type |-> "frame", fid |-> fid]
\* A CallbackJob or an UplinkPayload: its frame_id, and src, the number of
\* the lane-1 iteration that made it (-1: made by _emergency_stop).
ControlJob(fid, src) == [type |-> "CONTROL", fid |-> fid, src |-> src]
UplinkJob(fid, src)  == [type |-> "UPLINK", fid |-> fid, src |-> src]

\* What a pop of a slot holding no constructed element may return.
GarbageJobs == {ControlJob(0, 0 - 2), UplinkJob(0, 0 - 2)}

\* The input ring of lanes 2, 3, 5.
SinkQ(k) == CASE k = 2 -> "sig" [] k = 3 -> "yolo" [] k = 5 -> "vis"
SinkStage(k) == CASE k = 2 -> "L2" [] k = 3 -> "L3" [] k = 5 -> "L5"

\* The order in which lane1_control does its three enqueue stages:
\* "fan" (lanes 2, 3, 5), "ctrl" (CONTROL job to lane 6), "up" (lane 4).
L1Program_uplink_first == <<"fan", "up", "ctrl">>
L1Program ==
    IF impl = "engine" THEN <<"fan", "ctrl", "up">> ELSE <<"ctrl", "fan", "up">>

L1Next(stage) ==
    LET i == CHOOSE j \in 1..Len(L1Program) : L1Program[j] = stage
    IN  IF i = Len(L1Program) THEN "head" ELSE L1Program[i + 1]

\* The threads start(cfg) launches.  engine.cpp launches the six of them;
\* engine_backup.cpp launches lane K of 1..5 if cfg.enable_laneK, and the
\* dispatcher if a callback is registered (one is).
LaunchSet == IF impl = "engine" THEN Lanes ELSE cfg_ \cup {6}

InitEngVars ==
    /\ running_ = FALSE
    /\ handle = [k \in Lanes |-> "empty"]
    /\ terminated = FALSE
    /\ lane_pc = [k \in Lanes |-> "off"]
    /\ m_pc = "idle" /\ m_last = "none" /\ npush = 0
    /\ e_pc = "idle" /\ e_fid = 0 /\ nemerg = 0
    /\ frame_id_ = 0 /\ g_frame_count = 0
    /\ q = [n \in QNames |-> <<>>]
    /\ qdrop = [n \in QNames |-> 0]
    /\ cb_buf = [i \in 0..(RingN - 1) |-> RawJob]
    /\ cb_tail = 0 /\ cb_head = 0 /\ cb_cached_head = 0 /\ cb_cached_tail = 0
    /\ cb_drop = 0 /\ cb_mutex = 0
    /\ cb_ptail = [p \in Pushers |-> 0]
    /\ l1_job = NoFrame /\ l1_out = 0 /\ l4_job = NoJob
    /\ assigned = <<>> /\ l1_log = <<>> /\ dispatched = <<>>
    /\ l3_log = <<>>
    /\ cfg_ \in SUBSET (1..5)
    /\ ctrl_acc = {} /\ ctrl_rej = {}
    /\ last_in = [s \in Stages |-> 0 - 1]
    /\ regressed = {}

\* ---- try_push on a one-producer ring, in one step ----
Pushed(st, name, job) ==
    IF IsFull(Len(st.q[name]), 0)
    THEN [st EXCEPT !.d[name] = @ + 1]
    ELSE [st EXCEPT !.q[name] = Append(@, job)]

\* A stage sees an item with this frame_id.
Enter(stage, fid) ==
    /\ last_in' = [last_in EXCEPT ![stage] = fid]
    /\ regressed' = IF fid < last_in[stage] THEN regressed \cup {stage}
                    ELSE regressed

\* ---- push_impl on the callback ring, by pusher p ----
\* First half: (lock the mutex;) load the tail, test for full against
\* cached_head_, refreshing it from head_ when it says full.
CbHead == IF IsFull(cb_tail, cb_cached_head) THEN cb_head ELSE cb_cached_head
CbRefused == IsFull(cb_tail, CbHead)
CbLockHeldInCallback == cb_mutex = 0 /\ lane_pc[6] # "cb"
CbLockFree == impl = "engine" => cb_mutex = 0
CbBegin(p) ==
    /\ CbLockFree
    /\ cb_cached_head' = CbHead
    /\ cb_ptail' = [cb_ptail EXCEPT ![p] = cb_tail]
    /\ cb_drop' = IF CbRefused THEN cb_drop + 1 ELSE cb_drop
    /\ cb_mutex' = IF impl = "engine" /\ ~CbRefused THEN p ELSE cb_mutex
    /\ UNCHANGED <<cb_buf, cb_tail, cb_head, cb_cached_tail>>

\* Second half: construct the slot, store tail + 1 (and unlock).
CbEnd(p, job) ==
    /\ cb_buf' = [cb_buf EXCEPT ![Slot(cb_ptail[p])] = job]
    /\ cb_tail' = cb_ptail[p] + 1
    /\ cb_mutex' = IF impl = "engine" THEN 0 ELSE cb_mutex
    /\ UNCHANGED <<cb_head, cb_cached_head, cb_cached_tail, cb_drop, cb_ptail>>

\* ---- start(cfg) ----
Start ==
    /\ ~terminated /\ m_pc = "idle"
    /\ m_last' = "start"
    /\ IF running_
       THEN UNCHANGED <<running_, handle, terminated, lane_pc>>
       ELSE /\ running_' = TRUE
            /\ IF \E k \in LaunchSet : handle[k] # "empty"
               THEN \* t_ = std::thread(...) on a joinable handle
                    /\ terminated' = TRUE
                    /\ UNCHANGED <<handle, lane_pc>>
               ELSE /\ handle' = [k \in Lanes |->
                                    IF k \in LaunchSet THEN "joinable" ELSE handle[k]]
                    /\ lane_pc' = [k \in Lanes |->
                                    IF k \in LaunchSet THEN "head" ELSE lane_pc[k]]
                    /\ UNCHANGED terminated
    /\ UNCHANGED <<impl, m_pc, npush, emVars, frame_id_, g_frame_count,
                   q, qdrop, cbVars, l1Vars, l4_job, histVars, notEng>>

\* ---- stop(): the flag, then the joins ----
StopBegin ==
    /\ ~terminated /\ m_pc = "idle"
    /\ IF running_
       THEN /\ running_' = FALSE
            /\ m_pc' = "joining"
            /\ UNCHANGED m_last
       ELSE /\ m_last' = "stop"        \* was not running: returns at once
            /\ UNCHANGED <<running_, m_pc>>
    /\ UNCHANGED <<impl, handle, terminated, lane_pc, npush, emVars,
                   frame_id_, g_frame_count, q, qdrop, cbVars, l1Vars, l4_job,
                   histVars, notEng>>

\* Every lane comes to its loop head, finds running_ false and returns;
\* stop() joins each joinable handle.
StopJoin ==
    /\ ~terminated /\ m_pc = "joining"
    /\ ~running_
    /\ \A k \in Lanes : handle[k] = "joinable" => lane_pc[k] = "head"
    /\ handle' = [k \in Lanes |-> "empty"]
    /\ lane_pc' = [k \in Lanes |-> "off"]
    /\ m_pc' = "idle"
    /\ m_last' = "stop"
    /\ UNCHANGED <<impl, running_, terminated, npush,
                   emVars, frame_id_, g_frame_count, q, qdrop, cbVars, l1Vars,
                   l4_job, histVars, notEng>>

\* ---- push_frame(bgr, h, w) ----
PushFrame ==
    /\ ~terminated /\ m_pc = "idle" /\ npush < MaxFrames
    /\ npush' = npush + 1
    /\ IF impl = "backup" /\ ~running_
       THEN UNCHANGED <<frame_id_, q, qdrop, assigned>>
       ELSE LET st == Pushed([q |-> q, d |-> qdrop], "cam",
                             FrameJob(frame_id_))
            IN  /\ frame_id_' = IF impl = "engine" THEN frame_id_ + 1
                                ELSE frame_id_
                /\ assigned' = Append(assigned, frame_id_)
                /\ q' = st.q /\ qdrop' = st.d
    /\ UNCHANGED <<impl, lifeVars, m_pc, m_last, emVars,
                   g_frame_count, cbVars, l1Vars, l4_job,
                   l1_log, dispatched, ctrl_acc, ctrl_rej, last_in, regressed,
                   notEng>>

\* ---- _emergency_stop(), called from any thread ----
\* engine.cpp: the whole function (it only clears running_).
\* engine_backup.cpp: the load of frame_id_ for the synthetic decision.
EmergencyStop ==
    /\ ~terminated /\ e_pc = "idle" /\ nemerg < MaxEmerg
    /\ nemerg' = nemerg + 1
    /\ IF impl = "engine"
       THEN /\ running_' = FALSE
            /\ UNCHANGED <<e_pc, e_fid>>
       ELSE /\ e_fid' = frame_id_
            /\ e_pc' = "push"
            /\ UNCHANGED running_
    /\ UNCHANGED <<impl, handle, terminated, lane_pc, mainVars, frame_id_,
                   g_frame_count, q, qdrop, cbVars, l1Vars, l4_job, histVars,
                   notEng>>

\* engine_backup.cpp only: callback_queue_.try_push(job), no lock held.
EmPushBegin ==
    /\ ~terminated /\ impl = "backup" /\ e_pc = "push"
    /\ CbBegin(Emerg)
    /\ e_pc' = IF CbRefused THEN "clear" ELSE "push_w"
    /\ UNCHANGED <<impl, lifeVars, mainVars, e_fid, nemerg, frame_id_,
                   g_frame_count, q, qdrop, l1Vars, l4_job, histVars, notEng>>

EmPushEnd ==
    /\ ~terminated /\ impl = "backup" /\ e_pc = "push_w"
    /\ CbEnd(Emerg, ControlJob(e_fid, 0 - 1))
    /\ e_pc' = "clear"
    /\ UNCHANGED <<impl, lifeVars, mainVars, e_fid, nemerg, frame_id_,
                   g_frame_count, q, qdrop, l1Vars, l4_job, histVars, notEng>>

\* engine_backup.cpp only: running_.store(false) after the push.
EmClear ==
    /\ ~terminated /\ impl = "backup" /\ e_pc = "clear"
    /\ running_' = FALSE
    /\ e_pc' = "idle"
    /\ UNCHANGED <<impl, handle, terminated, lane_pc, mainVars, e_fid, nemerg,
                   frame_id_, g_frame_count, q, qdrop, cbVars, l1Vars, l4_job,
                   histVars, notEng>>

\* ---- the loop head of lanes 1, 4, 6: while (running_.load()) ----
\* A lane that finds running_ false returns; nothing but join() sees that,
\* so the return is part of StopJoin.
LaneEnter(k) ==
    /\ ~terminated /\ handle[k] = "joinable" /\ lane_pc[k] = "head"
    /\ k \in {1, 4, 6}
    /\ running_
    /\ lane_pc' = [lane_pc EXCEPT ![k] = "pop"]
    /\ UNCHANGED <<impl, running_, handle, terminated, mainVars, emVars,
                   frame_id_, g_frame_count, q, qdrop, cbVars, l1Vars, l4_job,
                   histVars, notEng>>

\* ---- lane1_control ----
\* The pop from the camera ring; empty sends the lane back to the loop head.
L1Pop ==
    /\ ~terminated /\ lane_pc[1] = "pop"
    /\ IF q["cam"] = <<>>
       THEN /\ lane_pc' = [lane_pc EXCEPT ![1] = "head"]
            /\ UNCHANGED <<q, l1_job>>
       ELSE /\ l1_job' = Head(q["cam"])
            /\ q' = [q EXCEPT !["cam"] = Tail(@)]
            /\ lane_pc' = [lane_pc EXCEPT ![1] = "proc"]
    /\ UNCHANGED <<impl, running_, handle, terminated, mainVars, emVars,
                   frame_id_, g_frame_count, qdrop, cbVars, l1_out, l4_job,
                   histVars, notEng>>

\* rt_core_process_frame_ptr: output.frame_id = g_frame_count++.
\* engine_backup.cpp then stores it into frame_id_.
L1Proc ==
    /\ ~terminated /\ lane_pc[1] = "proc"
    /\ l1_out' = g_frame_count
    /\ g_frame_count' = g_frame_count + 1
    /\ frame_id_' = IF impl = "backup" THEN g_frame_count ELSE frame_id_
    /\ lane_pc' = [lane_pc EXCEPT ![1] = L1Program[1]]
    /\ UNCHANGED <<impl, running_, handle, terminated, mainVars, emVars,
                   q, qdrop, cbVars, l1_job, l4_job, histVars, notEng>>

\* The frame_id lane 1 stamps on the jobs it fans out and on the payload:
\* job.frame_id in engine.cpp, out.frame_id in engine_backup.cpp.
L1JobFid == IF impl = "engine" THEN l1_job.fid ELSE l1_out

\* Signature, YOLO and visualisation jobs.  engine.cpp pushes the YOLO job
\* only when the gating engine says so; engine_backup.cpp always.
L1Fan ==
    /\ ~terminated /\ lane_pc[1] = "fan"
    /\ \E run \in (IF impl = "engine" THEN BOOLEAN ELSE {TRUE}) :
         LET j  == FrameJob(L1JobFid)
             s0 == [q |-> q, d |-> qdrop]
             s1 == Pushed(s0, "sig", j)
             s2 == IF run THEN Pushed(s1, "yolo", j) ELSE s1
             s3 == Pushed(s2, "vis", j)
         IN  q' = s3.q /\ qdrop' = s3.d
    /\ lane_pc' = [lane_pc EXCEPT ![1] = L1Next("fan")]
    /\ UNCHANGED <<impl, running_, handle, terminated, mainVars, emVars,
                   frame_id_, g_frame_count, cbVars, l1Vars, l4_job, histVars,
                   notEng>>

\* The CONTROL job: decision.frame_id = out.frame_id in both files.
L1CtrlBegin ==
    /\ ~terminated /\ lane_pc[1] = "ctrl"
    /\ CbBegin(1)
    /\ IF CbRefused
       THEN /\ ctrl_rej' = ctrl_rej \cup {l1_out}
            /\ l1_log' = Append(l1_log, <<"ctrl", l1_out>>)
            /\ lane_pc' = [lane_pc EXCEPT ![1] = L1Next("ctrl")]
       ELSE /\ lane_pc' = [lane_pc EXCEPT ![1] = "ctrl_w"]
            /\ UNCHANGED <<ctrl_rej, l1_log>>
    /\ UNCHANGED <<impl, running_, handle, terminated, mainVars, emVars,
                   frame_id_, g_frame_count, q, qdrop, l1Vars, l4_job,
                   assigned, dispatched, ctrl_acc, last_in, regressed, notEng>>

L1CtrlEnd ==
    /\ ~terminated /\ lane_pc[1] = "ctrl_w"
    /\ CbEnd(1, ControlJob(l1_out, l1_out))
    /\ ctrl_acc' = ctrl_acc \cup {l1_out}
    /\ l1_log' = Append(l1_log, <<"ctrl", l1_out>>)
    /\ lane_pc' = [lane_pc EXCEPT ![1] = L1Next("ctrl")]
    /\ UNCHANGED <<impl, running_, handle, terminated, mainVars, emVars,
                   frame_id_, g_frame_count, q, qdrop, l1Vars, l4_job,
                   assigned, dispatched, ctrl_rej, last_in, regressed, notEng>>

\* The UplinkPayload to lane 4.
L1Up ==
    /\ ~terminated /\ lane_pc[1] = "up"
    /\ LET st == Pushed([q |-> q, d |-> qdrop], "up",
                        UplinkJob(L1JobFid, l1_out))
       IN  q' = st.q /\ qdrop' = st.d
    /\ l1_log' = Append(l1_log, <<"up", l1_out>>)
    /\ lane_pc' = [lane_pc EXCEPT ![1] = L1Next("up")]
    /\ UNCHANGED <<impl, running_, handle, terminated, mainVars, emVars,
                   frame_id_, g_frame_count, cbVars, l1Vars, l4_job,
                   assigned, dispatched, ctrl_acc, ctrl_rej, last_in,
                   regressed, notEng>>

\* ---- lanes 2, 3, 5: pop a job and work on it ----
SinkPop(k) ==
    /\ ~terminated /\ handle[k] = "joinable" /\ lane_pc[k] = "head"
    /\ k \in {2, 3, 5}
    /\ running_
    /\ q[SinkQ(k)] # <<>>
    /\ Enter(SinkStage(k), Head(q[SinkQ(k)]).fid)
    /\ q' = [q EXCEPT ![SinkQ(k)] = Tail(@)]
    /\ UNCHANGED <<impl, lifeVars, mainVars, emVars, frame_id_, g_frame_count,
                   qdrop, cbVars, l1Vars, l4_job,
                   assigned, l1_log, dispatched, ctrl_acc, ctrl_rej, notEng>>

\* ---- lane4_uplink ----
L4Pop ==
    /\ ~terminated /\ lane_pc[4] = "pop"
    /\ IF q["up"] = <<>>
       THEN /\ lane_pc' = [lane_pc EXCEPT ![4] = "head"]
            /\ UNCHANGED <<q, l4_job, last_in, regressed>>
       ELSE /\ l4_job' = Head(q["up"])
            /\ q' = [q EXCEPT !["up"] = Tail(@)]
            /\ Enter("L4", Head(q["up"]).fid)
            /\ lane_pc' = [lane_pc EXCEPT ![4] = "cb"]
    /\ UNCHANGED <<impl, running_, handle, terminated, mainVars, emVars,
                   frame_id_, g_frame_count, qdrop, cbVars, l1Vars,
                   assigned, l1_log, dispatched, ctrl_acc, ctrl_rej, notEng>>

L4CbBegin ==
    /\ ~terminated /\ lane_pc[4] = "cb"
    /\ CbBegin(4)
    /\ lane_pc' = [lane_pc EXCEPT ![4] = IF CbRefused THEN "head" ELSE "cb_w"]
    /\ UNCHANGED <<impl, running_, handle, terminated, mainVars, emVars,
                   frame_id_, g_frame_count, q, qdrop, l1Vars, l4_job,
                   histVars, notEng>>

L4CbEnd ==
    /\ ~terminated /\ lane_pc[4] = "cb_w"
    /\ CbEnd(4, UplinkJob(l4_job.fid, l4_job.src))
    /\ lane_pc' = [lane_pc EXCEPT ![4] = "head"]
    /\ UNCHANGED <<impl, running_, handle, terminated, mainVars, emVars,
                   frame_id_, g_frame_count, q, qdrop, l1Vars, l4_job,
                   histVars, notEng>>

\* ---- lane6_callback_dispatcher: try_pop, then the user callback ----
MaxDispatch == 2 * MaxFrames + MaxEmerg + 1

L6Dispatch(after) ==
    /\ ~terminated /\ lane_pc[6] = "pop"
    /\ LET ct == IF IsEmpty(cb_head, cb_cached_tail) THEN cb_tail
                 ELSE cb_cached_tail
       IN  /\ cb_cached_tail' = ct
           /\ IF IsEmpty(cb_head, ct)
              THEN UNCHANGED <<cb_buf, cb_head, dispatched, last_in, regressed>>
              ELSE /\ Len(dispatched) < MaxDispatch
                   /\ \E job \in (IF cb_buf[Slot(cb_head)] = RawJob
                                  THEN GarbageJobs
                                  ELSE {cb_buf[Slot(cb_head)]}) :
                        /\ dispatched' = Append(dispatched, job)
                        /\ IF job \in GarbageJobs
                           THEN UNCHANGED <<last_in, regressed>>
                           ELSE Enter(job.type, job.fid)
                   /\ cb_buf' = [cb_buf EXCEPT ![Slot(cb_head)] = RawJob]
                   /\ cb_head' = cb_head + 1
    /\ lane_pc' = [lane_pc EXCEPT ![6] =
                        IF cb_head' # cb_head THEN after ELSE "head"]
    /\ UNCHANGED <<impl, running_, handle, terminated, mainVars, emVars,
                   frame_id_, g_frame_count, q, qdrop, cb_tail, cb_cached_head,
                   cb_drop, cb_mutex, cb_ptail, l1Vars, l4_job,
                   assigned, l1_log, ctrl_acc, ctrl_rej, notEng>>

\* The callback returns before the dispatcher is looked at again.
L6Pop == L6Dispatch("head")

\* ... or the dispatcher is seen inside the user's callback, which returns
\* when it pleases.
L6Invoke == L6Dispatch("cb")

L6Return ==
    /\ ~terminated /\ lane_pc[6] = "cb"
    /\ lane_pc' = [lane_pc EXCEPT ![6] = "head"]
    /\ UNCHANGED <<impl, running_, handle, terminated, mainVars, emVars,
                   frame_id_, g_frame_count, q, qdrop, cbVars, l1Vars, l4_job,
                   histVars, notEng>>

\* Lanes 1, 4, 6 and the owner's calls: the path of a frame to the callbacks.
NextPath ==
    \/ Start
    \/ StopBegin
    \/ StopJoin
    \/ PushFrame
    \/ \E k \in Lanes : LaneEnter(k)
    \/ L1Pop
    \/ L1Proc
    \/ L1Fan
    \/ L1CtrlBegin
    \/ L1CtrlEnd
    \/ L1Up
    \/ L4Pop
    \/ L4CbBegin
    \/ L4CbEnd
    \/ L6Pop

\* engine.cpp, where _emergency_stop is one step.
NextEngine ==
    \/ NextPath
    \/ EmergencyStop

\* engine.cpp with lanes 2, 3, 5 dequeuing.
NextLanes ==
    \/ NextEngine
    \/ \E k \in Lanes : SinkPop(k)

\* Either implementation; the steps after the first of _emergency_stop are
\* engine_backup.cpp's.
Next ==
    \/ NextPath
    \/ EmergencyStop
    \/ EmPushBegin
    \/ EmPushEnd
    \/ EmClear

(***************************************************************************)
(*                     TemporalConsistencyFilter                           *)
(***************************************************************************)

Channels == {"front", "left", "right", "crack"}

\* AccuracyConfig default.
max_gap_frames == 3

InitFiltVars ==
    /\ consec_ = [c \in Channels |-> 0]
    /\ gap_ = [c \in Channels |-> 0]
    /\ last_seq_ = 0
    /\ nfilter = 0
    /\ f_seen = FALSE
    /\ f_hits = {}
    /\ f_dup = FALSE

\* update_channel(risk, threshold, consec, gap, max_gap); hit: risk >= threshold
update_channel(hit, consec, gap, max_gap) ==
    IF hit
    THEN [consec |-> consec + 1, gap |-> 0]
    ELSE [consec |-> IF gap + 1 > max_gap THEN 0 ELSE consec, gap |-> gap + 1]

\* The early return of filter(): the snapshot is the one seen last.
SameAsLast(seq) == seq = last_seq_ /\ last_seq_ # 0

\* filter(raw, cfg) on a snapshot with this sequence_id whose risks reach
\* their thresholds on the channels of hits.
FilterWith(seq, hits) ==
    /\ f_dup' = (f_seen /\ seq = last_seq_)
    /\ f_seen' = TRUE
    /\ f_hits' = hits
    /\ IF SameAsLast(seq)
       THEN UNCHANGED <<consec_, gap_, last_seq_>>
       ELSE /\ last_seq_' = seq
            /\ consec_' = [c \in Channels |->
                 update_channel(c \in hits, consec_[c], gap_[c],
                                max_gap_frames).consec]
            /\ gap_' = [c \in Channels |->
                 update_channel(c \in hits, consec_[c], gap_[c],
                                max_gap_frames).gap]

\* filter(raw, cfg).  raw is the snapshot of the call before again (same
\* sequence_id, same risks) or a later one.
Filter ==
    /\ nfilter < MaxFilter
    /\ \E seq \in 0..MaxSeq, hits \in SUBSET Channels :
         /\ seq >= last_seq_
         /\ (f_seen /\ seq = last_seq_) => hits = f_hits
         /\ FilterWith(seq, hits)
    /\ nfilter' = nfilter + 1
    /\ UNCHANGED notFilt

\* reset()
FilterReset ==
    /\ f_seen
    /\ consec_' = [c \in Channels |-> 0]
    /\ gap_' = [c \in Channels |-> 0]
    /\ last_seq_' = 0
    /\ f_seen' = FALSE
    /\ f_hits' = {}
    /\ UNCHANGED nfilter
    /\ f_dup' = FALSE
    /\ UNCHANGED notFilt

NextFilter ==
    \/ Filter
    \/ FilterReset

(***************************************************************************)
(*                             GatingEngine                                *)
(*                                                                         *)
(* Floats are integers here: confidences and crack scores in hundredths,   *)
(* times in whole milliseconds.  The thresholds are drawn small, so that   *)
(* every branch of the cascade is taken within MaxDecide calls.            *)
(***************************************************************************)

Reasons == {"ForcedInfer", "CriticalCrack", "MaxSkipFrames", "MaxSkipTime",
            "NovelScene", "LowConfidence", "HighConfidenceSkip"}

\* GatingDecision's member initialisers.
NoDecision ==
    [should_infer |-> FALSE, confidence |-> 0,
     reason |-> "HighConfidenceSkip",
     signature_matched |-> FALSE, signature_confidence |-> 0,
     frames_since_last_infer |-> 0, time_since_last_infer_ms |-> 0]

NoArgs == [force |-> FALSE, crack |-> 0, matched |-> FALSE, conf |-> 0,
           t |-> 0, ms_since |-> 0, frames |-> 0, fresh |-> FALSE]

\* GatingEngine(confidence_threshold, max_skip_frames, max_skip_time_ms,
\*              critical_crack_threshold): the arguments are stored as given.
GateConstructed(ct, mf, mt, cc) ==
    /\ confidence_threshold_ = ct
    /\ max_skip_frames_ = mf
    /\ max_skip_time_ms_ = mt
    /\ critical_crack_threshold_ = cc
    /\ frames_since_last_infer_ = 0
    /\ last_infer_time_ms_ = 0
    /\ current_skip_streak_ = 0
    /\ max_skip_streak_ = 0
    /\ total_decisions_ = 0
    /\ infer_count_ = 0
    /\ skip_count_ = 0
    /\ current_skip_streak_snapshot_ = 0
    /\ max_skip_streak_snapshot_ = 0
    /\ gd = NoDecision
    /\ g_args = NoArgs
    /\ g_last = "new"
    /\ g_now = 1
    /\ g_inferred = FALSE
    /\ g_infer_at = 0
    /\ g_since_reset = -1
    /\ ndecide = 0

\* The engine's own gating engine: a high confidence threshold, several
\* frames and several milliseconds of skipping, the default crack threshold.
InitGateVars == GateConstructed(75, 3, 3, 60)

\* The time since the last inference with no overflow simulated on the
\* first frame.
time_since_last_ms_plain(current_time_ms) ==
    IF last_infer_time_ms_ > 0
    THEN current_time_ms - last_infer_time_ms_
    ELSE 0

\* decide(): the time since the last inference, as the cascade sees it.
time_since_last_ms(current_time_ms) ==
    IF last_infer_time_ms_ > 0
    THEN current_time_ms - last_infer_time_ms_
    ELSE max_skip_time_ms_ + 1

\* decide()'s cascade with the first two tests exchanged.
decide_reason_crack_first(force_infer, crack_score, frames, since, matched, conf) ==
    IF crack_score >= critical_crack_threshold_ THEN "CriticalCrack"
    ELSE IF force_infer THEN "ForcedInfer"
    ELSE IF frames >= max_skip_frames_ THEN "MaxSkipFrames"
    ELSE IF since >= max_skip_time_ms_ THEN "MaxSkipTime"
    ELSE IF ~matched THEN "NovelScene"
    ELSE IF conf < confidence_threshold_ THEN "LowConfidence"
    ELSE "HighConfidenceSkip"

\* decide()'s cascade without the frame-count test.
decide_reason_no_frames(force_infer, crack_score, frames, since, matched, conf) ==
    IF force_infer THEN "ForcedInfer"
    ELSE IF crack_score >= critical_crack_threshold_ THEN "CriticalCrack"
    ELSE IF since >= max_skip_time_ms_ THEN "MaxSkipTime"
    ELSE IF ~matched THEN "NovelScene"
    ELSE IF conf < confidence_threshold_ THEN "LowConfidence"
    ELSE "HighConfidenceSkip"

\* decide(): the cascade.  frames is frames_since_last_infer_ after its
\* increment, since is time_since_last_ms.
decide_reason(force_infer, crack_score, frames, since, matched, conf) ==
    IF force_infer THEN "ForcedInfer"
    ELSE IF crack_score >= critical_crack_threshold_ THEN "CriticalCrack"
    ELSE IF frames >= max_skip_frames_ THEN "MaxSkipFrames"
    ELSE IF since >= max_skip_time_ms_ THEN "MaxSkipTime"
    ELSE IF ~matched THEN "NovelScene"
    ELSE IF conf < confidence_threshold_ THEN "LowConfidence"
    ELSE "HighConfidenceSkip"

\* The confidence decide() hands to make_decision with each reason.
decide_confidence(reason, conf) ==
    CASE reason \in {"ForcedInfer", "CriticalCrack"} -> 100
      [] reason \in {"MaxSkipFrames", "MaxSkipTime"} -> 50
      [] reason = "NovelScene" -> 30
      [] OTHER -> conf

\* make_decision's state update on a skip that leaves max_skip_streak_ alone.
make_decision_no_max(should_infer, frames, current_time_ms) ==
    IF should_infer
    THEN [frames |-> 0, last |-> current_time_ms, streak |-> 0,
          max |-> max_skip_streak_]
    ELSE [frames |-> frames, last |-> last_infer_time_ms_,
          streak |-> current_skip_streak_ + 1, max |-> max_skip_streak_]

\* make_decision's state update: the new frames_since_last_infer_,
\* last_infer_time_ms_, current_skip_streak_ and max_skip_streak_.
make_decision(should_infer, frames, current_time_ms) ==
    IF should_infer
    THEN [frames |-> 0, last |-> current_time_ms, streak |-> 0,
          max |-> max_skip_streak_]
    ELSE [frames |-> frames, last |-> last_infer_time_ms_,
          streak |-> current_skip_streak_ + 1,
          max |-> IF current_skip_streak_ + 1 > max_skip_streak_
                  THEN current_skip_streak_ + 1 ELSE max_skip_streak_]

\* decide(sig_match, frame_id, current_time_ms, crack_score, force_infer) on
\* this engine, the next state included.
DecideWith(force, crack, matched, conf, t) ==
    LET since  == time_since_last_ms(t)
        frames == frames_since_last_infer_ + 1
        reason == decide_reason(force, crack, frames, since, matched, conf)
        run    == reason # "HighConfidenceSkip"
        st     == make_decision(run, frames, t)
    IN  /\ gd' = [should_infer |-> run,
                  confidence |-> decide_confidence(reason, conf),
                  reason |-> reason,
                  signature_matched |-> matched,
                  signature_confidence |-> conf,
                  frames_since_last_infer |-> frames,
                  time_since_last_infer_ms |-> since]
        /\ frames_since_last_infer_' = st.frames
        /\ last_infer_time_ms_' = st.last
        /\ current_skip_streak_' = st.streak
        /\ max_skip_streak_' = st.max
        /\ total_decisions_' = total_decisions_ + 1
        /\ infer_count_' = IF run THEN infer_count_ + 1 ELSE infer_count_
        /\ skip_count_' = IF run THEN skip_count_ ELSE skip_count_ + 1
        /\ current_skip_streak_snapshot_' = st.streak
        /\ max_skip_streak_snapshot_' = st.max
        /\ g_args' = [force |-> force, crack |-> crack, matched |-> matched,
                      conf |-> conf, t |-> t,
                      ms_since |-> IF g_inferred THEN t - g_infer_at
                                   ELSE max_skip_time_ms_ + 1,
                      frames |-> frames, fresh |-> ~g_inferred]
        /\ g_last' = "decide"
        /\ g_now' = t
        /\ g_inferred' = (g_inferred \/ run)
        /\ g_infer_at' = IF run THEN t ELSE g_infer_at
        /\ g_since_reset' = IF g_since_reset >= 0 THEN g_since_reset + 1
                            ELSE g_since_reset
        /\ ndecide' = ndecide + 1
        /\ UNCHANGED gateCfg

\* A decide() call by the engine's owner.  current_time_ms is now_ms(), a
\* steady_clock reading: positive, and not before the last one.
Decide ==
    /\ ndecide < MaxDecide
    /\ \E force \in BOOLEAN, crack \in {0, 60}, matched \in BOOLEAN,
          conf \in {50, 99}, t \in g_now..MaxTime :
         DecideWith(force, crack, matched, conf, t)
    /\ UNCHANGED notGate

\* A decide() call by any caller of the class: current_time_ms is whatever
\* the caller's clock reads, 0 included, and not before the last one.
DecideAny ==
    /\ ndecide < MaxDecide
    /\ \E force \in BOOLEAN, crack \in {0, 60}, matched \in BOOLEAN,
          conf \in {50, 99},
          t \in (IF ndecide = 0 THEN 0 ELSE g_now)..MaxTime :
         DecideWith(force, crack, matched, conf, t)
    /\ UNCHANGED notGate

\* get_stats()
get_stats ==
    [total_decisions |-> total_decisions_,
     infer_count |-> infer_count_,
     skip_count |-> skip_count_,
     current_skip_streak |-> current_skip_streak_snapshot_,
     max_skip_streak |-> max_skip_streak_snapshot_,
     suppression_rate |-> IF total_decisions_ > 0
                          THEN (100 * skip_count_) \div total_decisions_
                          ELSE 0,
     avg_skip_streak |-> IF infer_count_ > 0
                         THEN (100 * skip_count_) \div infer_count_
                         ELSE 0]

\* reset() that leaves last_infer_time_ms_ alone.
GateReset_keeps_time ==
    /\ g_last # "reset"
    /\ frames_since_last_infer_' = 0
    /\ UNCHANGED last_infer_time_ms_
    /\ current_skip_streak_' = 0
    /\ max_skip_streak_' = 0
    /\ total_decisions_' = 0
    /\ infer_count_' = 0
    /\ skip_count_' = 0
    /\ current_skip_streak_snapshot_' = 0
    /\ max_skip_streak_snapshot_' = 0
    /\ g_last' = "reset"
    /\ g_inferred' = FALSE
    /\ g_infer_at' = 0
    /\ g_since_reset' = 0
    /\ UNCHANGED <<gateCfg, gd, g_args, g_now, ndecide>>
    /\ UNCHANGED notGate

\* reset()
GateReset ==
    /\ g_last # "reset"
    /\ frames_since_last_infer_' = 0
    /\ last_infer_time_ms_' = 0
    /\ current_skip_streak_' = 0
    /\ max_skip_streak_' = 0
    /\ total_decisions_' = 0
    /\ infer_count_' = 0
    /\ skip_count_' = 0
    /\ current_skip_streak_snapshot_' = 0
    /\ max_skip_streak_snapshot_' = 0
    /\ g_last' = "reset"
    /\ g_inferred' = FALSE
    /\ g_infer_at' = 0
    /\ g_since_reset' = 0
    /\ UNCHANGED <<gateCfg, gd, g_args, g_now, ndecide>>
    /\ UNCHANGED notGate

Clamp(x, lo, hi) == IF x < lo THEN lo ELSE IF x > hi THEN hi ELSE x

\* update_config(confidence_threshold, max_skip_frames, max_skip_time_ms,
\*               critical_crack_threshold)
UpdateConfig ==
    /\ \E ct \in {75}, mf \in {0, 2}, mt \in {0, 3}, cc \in {60} :
         /\ confidence_threshold_' = Clamp(ct, 0, 100)
         /\ max_skip_frames_' = (IF mf < 1 THEN 1 ELSE mf)
         /\ max_skip_time_ms_' = (IF mt < 1 THEN 1 ELSE mt)
         /\ critical_crack_threshold_' = Clamp(cc, 0, 100)
    /\ gateCfg' # gateCfg
    /\ g_last' = "config"
    /\ UNCHANGED <<gateState, gateStats, gd, g_args, g_now, g_inferred,
                   g_infer_at, g_since_reset, ndecide>>
    /\ UNCHANGED notGate

NextGate ==
    \/ Decide
    \/ GateReset
    \/ UpdateConfig

(***************************************************************************)
(*                      Lane 3: semantic inference                         *)
(***************************************************************************)

\* rt_core_yolo_publish, called by lane 3 with no reader or reset under way.
rt_core_yolo_publish ==
    /\ buffers_' = [buffers_ EXCEPT ![g_yolo_write_index] =
                      [@ EXCEPT !.a = npub + 1, !.b = npub + 1,
                                !.valid = TRUE]]
    /\ active_' = g_yolo_write_index
    /\ g_yolo_write_index' = active_
    /\ npub' = npub + 1
    /\ UNCHANGED <<snapImpl, write_seq_, wr_pc, wr_idx, wr_seq, rdLocal>>

\* One iteration of lane3_yolo that finds a job.  engine_backup.cpp asks
\* the gating engine and goes on only if it says run; engine.cpp goes
\* straight to the detector.  Both then publish the result.
L3Step ==
    /\ ~terminated /\ handle[3] = "joinable" /\ lane_pc[3] = "head"
    /\ running_
    /\ q["yolo"] # <<>>
    /\ wr_pc = "idle" /\ rd_pc = "idle"
    /\ Enter("L3", Head(q["yolo"]).fid)
    /\ q' = [q EXCEPT !["yolo"] = Tail(@)]
    /\ IF impl = "backup"
       THEN /\ ndecide < MaxDecide
            /\ \E crack \in {0, 60}, matched \in BOOLEAN, conf \in {50, 99},
                  t \in g_now..MaxTime :
                 DecideWith(FALSE, crack, matched, conf, t)
            /\ l3_log' = Append(l3_log,
                 [fid |-> Head(q["yolo"]).fid, gated |-> TRUE,
                  run |-> gd'.should_infer,
                  detected |-> gd'.should_infer,
                  published |-> gd'.should_infer])
            /\ IF gd'.should_infer
               THEN rt_core_yolo_publish
               ELSE UNCHANGED snapVars
       ELSE /\ UNCHANGED gateVars
            /\ l3_log' = Append(l3_log,
                 [fid |-> Head(q["yolo"]).fid, gated |-> FALSE,
                  run |-> FALSE, detected |-> TRUE, published |-> TRUE])
            /\ rt_core_yolo_publish
    /\ UNCHANGED <<impl, lifeVars, mainVars, emVars, frame_id_, g_frame_count,
                   qdrop, cbVars, l1Vars, l4_job,
                   assigned, l1_log, dispatched, ctrl_acc, ctrl_rej>>
    /\ UNCHANGED <<rsVars, ringVars, filtVars, cfg_, kVars, bondVars, tailVars>>

\* The callers, lane 1 and lane 3.
NextL3 ==
    \/ Start
    \/ StopBegin
    \/ StopJoin
    \/ PushFrame
    \/ LaneEnter(1)
    \/ L1Pop
    \/ L1Proc
    \/ L1Fan
    \/ L1CtrlBegin
    \/ L1CtrlEnd
    \/ L1Up
    \/ L3Step

(***************************************************************************)
(*                     Sensing kernel  (rt_core.cpp)                       *)
(*                                                                         *)
(* A frame is a pattern over the pixel grid, two BGR triples and the rule  *)
(* that says which pixel takes which; a luminance plane is the same        *)
(* pattern over two grey levels, since the conversion works pixel by       *)
(* pixel.  Scores are exact fractions [n, d]; times are whole ms.  A call  *)
(* advances one row of the pixel walk per step.                            *)
(***************************************************************************)
TARGET_WIDTH  == 416
TARGET_HEIGHT == 234
THRESHOLD_ON_U8  == 8
THRESHOLD_OFF_U8 == 8
CRACK_GRADIENT_THRESHOLD_U8 == 77
YOLO_MAX_AGE_S == 5
LATERAL_INHIBITION_RADIUS == 3

SmallW    == 8       \* a sensing resolution small enough to enumerate frames
SmallH    == 7
MaxKernel == 4       \* sensing calls
MaxYolo   == 1       \* rt_core_yolo_publish calls

CRACK_ROI_START_Y(height) == (height * 2) \div 3

TOTAL_PIXELS(width, height) == width * height

Max(a, b) == IF a > b THEN a ELSE b

Abs(a) == IF a < 0 THEN 0 - a ELSE a

\* Frames: one colour; a left and a right half; vertical bars two pixels
\* wide.
Uniform(v) == [kind |-> "uniform", lo |-> <<v, v, v>>, hi |-> <<v, v, v>>]
Split(a, b) == [kind |-> "split", lo |-> <<a, a, a>>, hi |-> <<b, b, b>>]
Bars(a, b) == [kind |-> "bars", lo |-> <<a, a, a>>, hi |-> <<b, b, b>>]
Red == [kind |-> "uniform", lo |-> <<0, 0, 255>>, hi |-> <<0, 0, 255>>]

\* bgr == nullptr, and the predecessor of the first frame
NullFrame == [kind |-> "nullptr", lo |-> <<0, 0, 0>>, hi |-> <<0, 0, 0>>]
NoPredecessor == [kind |-> "none", lo |-> <<0, 0, 0>>, hi |-> <<0, 0, 0>>]

\* memset(..., 0, ...): the planes as ensure_initialized leaves them
ZeroPlane == [kind |-> "uniform", lo |-> 0, hi |-> 0]

\* the grey level of one pixel: (54*R + 183*G + 19*B) >> 8, cast to uint8_t
gray_of(bgr) == ((54 * bgr[3] + 183 * bgr[2] + 19 * bgr[1]) \div 256) % 256

bgr_to_gray_u8(bgr) ==
    [kind |-> bgr.kind, lo |-> gray_of(bgr.lo), hi |-> gray_of(bgr.hi)]

\* gray[y * width + x]
GrayAt(gray, x, y, width, height) ==
    CASE gray.kind = "uniform" -> gray.lo
      [] gray.kind = "split"   -> IF x < width \div 2 THEN gray.lo ELSE gray.hi
      [] gray.kind = "bars"    -> IF (x \div 2) % 2 = 0 THEN gray.lo
                                  ELSE gray.hi

NoHistory == [slot \in 0..(LATERAL_INHIBITION_RADIUS - 1) |-> {}]

\* A row of flags is the set of columns whose flag is set.
inhibited_causal(curr_row, history_rows, width, x, radius, rows_valid, rows_done) ==
    IF radius <= 0 THEN FALSE
    ELSE LET x0 == Max(x - radius, 0)
             x1 == Min(x + radius, width - 1)
         IN  \/ \E xi \in x0..(x - 1) : xi \in curr_row
             \/ \E k \in 1..rows_valid :
                    \E xi \in x0..x1 :
                        xi \in history_rows[(rows_done - k) % radius]

delta_of_curr(curr, prev) == curr

\* int delta = curr_gray[idx] - prev_gray[idx]
delta(curr, prev) == curr - prev

\* One pixel of the walk.  c holds what the row does not change: y, the two
\* planes, the dimensions, rows_valid, rows_processed and the histories;
\* st holds the counts, the accumulator and the two rows of flags.
pixel_step(st, x, c) ==
    LET d == delta(GrayAt(c.curr, x, c.y, c.w, c.h),
                   GrayAt(c.prev, x, c.y, c.w, c.h))
        on  == /\ d > THRESHOLD_ON_U8
               /\ ~inhibited_causal(st.on_curr, c.on_hist, c.w, x,
                                    LATERAL_INHIBITION_RADIUS,
                                    c.rows_valid, c.rows_done)
        off == /\ ~(d > THRESHOLD_ON_U8)
               /\ d < 0 - THRESHOLD_OFF_U8
               /\ ~inhibited_causal(st.off_curr, c.off_hist, c.w, x,
                                    LATERAL_INHIBITION_RADIUS,
                                    c.rows_valid, c.rows_done)
        grad_abs == Abs(GrayAt(c.curr, x + 1, c.y, c.w, c.h)
                        - GrayAt(c.curr, x - 1, c.y, c.w, c.h))
        crack == /\ c.y >= CRACK_ROI_START_Y(c.h)
                 /\ grad_abs > CRACK_GRADIENT_THRESHOLD_U8
    IN  [on       |-> st.on + (IF on THEN 1 ELSE 0),
         off      |-> st.off + (IF off THEN 1 ELSE 0),
         acc      |-> st.acc + (IF crack THEN grad_abs ELSE 0),
         on_curr  |-> IF on THEN st.on_curr \cup {x} ELSE st.on_curr,
         off_curr |-> IF off THEN st.off_curr \cup {x} ELSE st.off_curr]

\* The columns a .. b - 1 in ascending order, each pixel starting from what the
\* pixel before it left; the span is walked as its lower half, then its upper
\* half, which is the same order.
RECURSIVE row_span(_, _, _, _)
row_span(st, a, b, c) ==
    IF a >= b THEN st
    ELSE IF b = a + 1 THEN pixel_step(st, a, c)
    ELSE LET m == (a + b) \div 2
             lower == row_span(st, a, m, c)
         IN  IF lower.on >= 0 THEN row_span(lower, m, b, c) ELSE lower

\* for (int x = 1; x < width - 1; ++x), from column x on
row_walk(st, x, c) == row_span(st, x, c.w - 1, c)

\* std::memset(&output, 0, sizeof(output))
Fr(n, d) == [n |-> n, d |-> d]
ZeroOutput ==
    [frame_id |-> 0, on_spike_count |-> 0, off_spike_count |-> 0,
     sparsity |-> Fr(0, 1), crack_score |-> Fr(0, 1),
     fused_crack_score |-> Fr(0, 1), throttle |-> 0,
     inference_suppressed |-> 0, event_only_mode |-> 0, is_null_cycle |-> 0,
     yolo_active |-> 0, yolo_age_ms |-> 0]

NoDecisionYet == [frame_id |-> -2, action |-> "none", crack_score |-> Fr(0, 1)]

\* std::memset(g_yolo_snapshots, 0, sizeof(g_yolo_snapshots))
ZeroSnapshot ==
    [valid |-> FALSE, timestamp_s |-> 0, front_risk |-> 0, left_risk |-> 0,
     right_risk |-> 0, crack_risk |-> 0]

InitKVars ==
    /\ g_curr_gray_u8 = ZeroPlane /\ g_prev_gray_u8 = ZeroPlane
    /\ k_pc = "idle" /\ k_t = 0
    /\ k_in = [bgr |-> NoPredecessor, height |-> 0, width |-> 0,
               snap |-> ZeroSnapshot]
    /\ p_y = 0 /\ rows_processed = 0 /\ on_count = 0 /\ off_count = 0
    /\ crack_accumulator = 0
    /\ g_on_history = NoHistory /\ g_off_history = NoHistory
    /\ output = ZeroOutput /\ decision = NoDecisionYet
    /\ k_yolo = ZeroSnapshot /\ k_now = 0
    /\ k_log = <<>> /\ nkernel = 0 /\ nyolo = 0

\* A build for the small resolution, with assert() compiled out.
InitBondVars ==
    /\ fusion = [adjusted_crack_score |-> 0,
                 control_mods |-> [speed_scale |-> 1000, steer_bias |-> 0,
                                   emergency_slow |-> FALSE],
                 yolo_active |-> FALSE, yolo_age_ms |-> 0 - 1,
                 temporal_stability |-> 0, yolo_seq |-> 0]
    /\ fu_in = [score |-> 0,
                snap |-> [valid |-> FALSE, age_ms |-> 0, sequence_id |-> 0,
                          hits |-> {}, priority_detections |-> 0]]
    /\ nfuse = 0

TargetSmall ==
    /\ target_w = SmallW /\ target_h = SmallH
    /\ assert_on = FALSE

\* Everything of the engine but the kernel's frame counter.
engNoCount == <<impl, lifeVars, mainVars, emVars, frame_id_, q, qdrop, cbVars,
                l1Vars, l4_job, histVars>>
notKernel == <<snapVars, rsVars, ringVars, engNoCount, filtVars, gateVars,
               l3Vars, bondVars, tailVars>>

\* The frame the kernel processed last, "none" before the first.
Predecessor ==
    LET done == SelectSeq(k_log, LAMBDA e : e.out.frame_id >= 0)
    IN  IF done = <<>> THEN NoPredecessor ELSE done[Len(done)].frame

result_carried(left) == left

\* PipelineResult result = {0, 0, 0.0f}; float crack_accumulator = 0.0f;
\* the counts and the accumulator of a call start at zero, whatever the call
\* before it left in them.
result_start(left) == 0

\* rt_core_process_frame_ptr, up to the start of the pixel walk.  bgr is a
\* frame or NullFrame; t is what get_time_seconds() returns.
rt_core_process_frame_ptr(bgr, height, width, t) ==
    /\ k_pc = "idle"
    /\ nkernel < MaxKernel
    /\ nkernel' = nkernel + 1
    /\ k_in' = [bgr |-> bgr, height |-> height, width |-> width,
                snap |-> ZeroSnapshot]
    /\ IF bgr.kind = "nullptr"
       THEN /\ output' = [ZeroOutput EXCEPT !.frame_id = -1]
            /\ k_log' = Append(k_log, [frame |-> bgr, pred |-> Predecessor,
                                       snap |-> ZeroSnapshot, t |-> k_t,
                                       out |-> output'])
            /\ UNCHANGED <<k_pc, k_t, k_now, g_curr_gray_u8, pipeVars,
                           g_frame_count>>
       ELSE IF height # target_h \/ width # target_w
       THEN IF assert_on
            THEN \* assert(false && "Resolution mismatch ..."): abort()
                 /\ k_pc' = "aborted"
                 /\ UNCHANGED <<output, k_log, k_t, k_now, g_curr_gray_u8,
                                pipeVars, g_frame_count>>
            ELSE /\ output' = [ZeroOutput EXCEPT !.frame_id = -1]
                 /\ k_log' = Append(k_log, [frame |-> bgr,
                                            pred |-> Predecessor,
                                            snap |-> ZeroSnapshot,
                                            t |-> k_t,
                                            out |-> output'])
                 /\ UNCHANGED <<k_pc, k_t, k_now, g_curr_gray_u8, pipeVars,
                                g_frame_count>>
       ELSE /\ k_t' = t /\ k_now' = t
            /\ g_curr_gray_u8' = bgr_to_gray_u8(bgr)
            /\ on_count' = result_start(on_count)
            /\ off_count' = result_start(off_count)
            /\ crack_accumulator' = result_start(crack_accumulator)
            /\ rows_processed' = 0 /\ p_y' = 1
            /\ g_on_history' = NoHistory /\ g_off_history' = NoHistory
            \* the first frame has no temporal reference: no walk
            /\ k_pc' = IF g_frame_count > 0 THEN "rows" ELSE "fuse"
            /\ UNCHANGED <<output, k_log, g_frame_count>>
    /\ UNCHANGED <<assert_on, target_w, target_h, g_prev_gray_u8, decision,
                   k_yolo, nyolo>>
    /\ UNCHANGED notKernel

\* single_pass_pipeline: one turn of  for (int y = 1; y < height - 1; ++y)
PipelineRow ==
    /\ k_pc = "rows"
    /\ LET c == [y |-> p_y, curr |-> g_curr_gray_u8, prev |-> g_prev_gray_u8,
                 w |-> target_w, h |-> target_h,
                 rows_valid |-> Min(rows_processed, LATERAL_INHIBITION_RADIUS),
                 rows_done |-> rows_processed,
                 on_hist |-> g_on_history, off_hist |-> g_off_history]
           st == row_walk([on |-> on_count, off |-> off_count,
                           acc |-> crack_accumulator,
                           on_curr |-> {}, off_curr |-> {}], 1, c)
           slot == rows_processed % LATERAL_INHIBITION_RADIUS
       IN  /\ on_count' = st.on /\ off_count' = st.off
           /\ crack_accumulator' = st.acc
           /\ g_on_history' = [g_on_history EXCEPT ![slot] = st.on_curr]
           /\ g_off_history' = [g_off_history EXCEPT ![slot] = st.off_curr]
    /\ rows_processed' = rows_processed + 1
    /\ p_y' = p_y + 1
    /\ k_pc' = IF p_y + 1 < target_h - 1 THEN "rows" ELSE "fuse"
    /\ UNCHANGED <<assert_on, target_w, target_h, g_curr_gray_u8,
                   g_prev_gray_u8, k_in, k_t, output, decision, k_yolo,
                   k_now, k_log, nkernel, nyolo, g_frame_count>>
    /\ UNCHANGED notKernel

\* a > p/q, a >= p/q and a = b on fractions with positive denominators
FrGt(a, num, den) == a.n * den > num * a.d
FrEq(a, b) == a.n * b.d = b.n * a.d

\* result.crack_score = crack_accumulator / roi_pixels, the accumulator
\* being the sum of grad_abs / 255
crack_score_of(acc, width, height) ==
    LET roi_pixels == (height - CRACK_ROI_START_Y(height)) * (width - 2)
    IN  IF roi_pixels > 0 THEN Fr(acc, 255 * roi_pixels) ELSE Fr(0, 1)

sparsity_inverted(total_spikes, pixels) == Fr(total_spikes - pixels, pixels)

\* output.sparsity = 1.0f - total_spikes / TOTAL_PIXELS
sparsity_of(total_spikes, pixels) == Fr(pixels - total_spikes, pixels)

\* Risks are in hundredths, so boost = (200 + crack_risk) / 200.
apply_yolo_fusion_lockfree(raw_crack_score, current_time_s) ==
    LET snap == k_yolo
        age  == current_time_s - snap.timestamp_s
        obstacle_risk == Max(snap.front_risk,
                             Max(snap.left_risk, snap.right_risk))
        boost == IF obstacle_risk > 60
                 THEN Fr((200 + snap.crack_risk) * 7, 200 * 10)
                 ELSE Fr(200 + snap.crack_risk, 200)
        prod == Fr(raw_crack_score.n * boost.n, raw_crack_score.d * boost.d)
    IN  IF ~snap.valid THEN raw_crack_score
        ELSE IF age > YOLO_MAX_AGE_S * 1000 THEN raw_crack_score
        ELSE IF prod.n > prod.d THEN Fr(1, 1) ELSE prod

\* g_throttle_lut[clamp(int(crack * 255), 0, 255)], in tenths
throttle_from_crack_lut(crack) ==
    LET raw_idx == (crack.n * 255) \div crack.d
        idx == Max(0, Min(raw_idx, 255))
    IN  IF idx * 2 > 255 THEN 3
        ELSE IF idx * 5 > 255 THEN 7
        ELSE 10

is_null_cycle_never(count) == 0

\* output.is_null_cycle = (g_frame_count == 0) ? 1 : 0
is_null_cycle_of(count) == IF count = 0 THEN 1 ELSE 0

\* rt_core_process_frame_ptr from the end of the pixel walk to the control
\* decision: the first read of the snapshot
FuseStep ==
    /\ k_pc = "fuse"
    /\ LET ran == g_frame_count > 0
           on  == IF ran THEN on_count ELSE 0
           off == IF ran THEN off_count ELSE 0
           raw == IF ran
                  THEN crack_score_of(crack_accumulator, target_w, target_h)
                  ELSE Fr(0, 1)
           sp  == sparsity_of(on + off, TOTAL_PIXELS(target_w, target_h))
           fused == apply_yolo_fusion_lockfree(raw, k_t)
       IN  output' = [ZeroOutput EXCEPT
                        !.on_spike_count = on,
                        !.off_spike_count = off,
                        !.sparsity = sp,
                        !.crack_score = raw,
                        !.fused_crack_score = fused,
                        !.throttle = throttle_from_crack_lut(fused),
                        !.inference_suppressed =
                            IF FrGt(sp, 95, 100) THEN 1 ELSE 0,
                        !.event_only_mode =
                            IF FrGt(sp, 98, 100) THEN 1 ELSE 0,
                        !.is_null_cycle = is_null_cycle_of(g_frame_count)]
    /\ k_in' = [k_in EXCEPT !.snap = k_yolo]
    /\ k_pc' = "yolo"
    /\ UNCHANGED <<assert_on, target_w, target_h, g_curr_gray_u8,
                   g_prev_gray_u8, k_t, pipeVars, decision, k_yolo,
                   k_now, k_log, nkernel, nyolo, g_frame_count>>
    /\ UNCHANGED notKernel

\* ... and from the second read of the snapshot to the return
ReturnStep ==
    /\ k_pc = "yolo"
    /\ LET yolo == k_yolo
       IN  output' = [output EXCEPT
                        !.yolo_active = IF yolo.valid THEN 1 ELSE 0,
                        !.yolo_age_ms = IF yolo.valid
                                        THEN k_t - yolo.timestamp_s
                                        ELSE 99999,
                        !.frame_id = g_frame_count]
    /\ k_log' = Append(k_log, [frame |-> k_in.bgr, pred |-> Predecessor,
                               snap |-> k_in.snap, t |-> k_t,
                               out |-> output'])
    \* std::swap(g_curr_gray_u8, g_prev_gray_u8)
    /\ g_curr_gray_u8' = g_prev_gray_u8
    /\ g_prev_gray_u8' = g_curr_gray_u8
    /\ g_frame_count' = g_frame_count + 1
    /\ k_pc' = "ret"
    /\ UNCHANGED <<assert_on, target_w, target_h, k_in, k_t, pipeVars,
                   decision, k_yolo, k_now, nkernel, nyolo>>
    /\ UNCHANGED notKernel

\* rt_core_yolo_publish by the thread of the detector; the kernel reads the
\* snapshot as a whole (how a read can tear is SpecSnap's subject)
KernelPublish(timestamp_s, front_risk, left_risk, right_risk, crack_risk) ==
    /\ nyolo < MaxYolo
    /\ k_pc \in {"idle", "yolo"}
    /\ nyolo' = nyolo + 1
    /\ k_yolo' = [valid |-> TRUE, timestamp_s |-> timestamp_s,
                  front_risk |-> front_risk, left_risk |-> left_risk,
                  right_risk |-> right_risk, crack_risk |-> crack_risk]
    /\ UNCHANGED <<assert_on, target_w, target_h, g_curr_gray_u8,
                   g_prev_gray_u8, k_pc, k_in, k_t, pipeVars, output,
                   decision, k_now, k_log, nkernel, g_frame_count>>
    /\ UNCHANGED notKernel

\* MultiRateEngine::make_decision of engine.cpp
engine_make_decision(rt_out) ==
    LET crack == rt_out.fused_crack_score
    IN  [frame_id |-> rt_out.frame_id,
         crack_score |-> crack,
         action |-> IF FrGt(crack, 70, 100) THEN "STOP"
                    ELSE IF FrGt(crack, 40, 100) THEN "SLOW"
                    ELSE IF FrGt(crack, 10, 100) THEN "CAUTION"
                    ELSE "CLEAR"]

\* MultiRateEngine::make_decision of engine_backup.cpp: ControlDecision d{}
\* and no assignment to d.action
backup_make_decision(rt_out) ==
    [frame_id |-> rt_out.frame_id,
     crack_score |-> rt_out.fused_crack_score,
     action |-> ""]

\* What crack_inference_engine_->update may return as fused_probability.
FusedProbabilities == {Fr(0, 1), Fr(1, 2)}

\* Lane 1 after the kernel returned: the control decision.
Lane1Decide ==
    /\ k_pc = "ret"
    /\ IF impl = "engine"
       THEN decision' = engine_make_decision(output)
       ELSE \E p \in FusedProbabilities :
                decision' = backup_make_decision(
                                [output EXCEPT !.fused_crack_score = p])
    /\ k_pc' = "idle"
    /\ UNCHANGED <<assert_on, target_w, target_h, g_curr_gray_u8,
                   g_prev_gray_u8, k_in, k_t, pipeVars, output, k_yolo,
                   k_now, k_log, nkernel, nyolo, g_frame_count>>
    /\ UNCHANGED notKernel

\* The frames the callers supply.
KFrames == {Uniform(128), Split(50, 150), Red}

\* A caller of the C API with a frame of the sensing resolution; the clock
\* stands still.
CallSensing ==
    \E f \in KFrames : rt_core_process_frame_ptr(f, target_h, target_w, k_now)

\* A caller of the C API with a frame of another resolution, or with none.
CallMismatched ==
    \/ rt_core_process_frame_ptr(Uniform(128), target_h + 1, target_w, k_now)
    \/ rt_core_process_frame_ptr(NullFrame, target_h, target_w, k_now)

\* The detector publishes a crack seen now.
PublishCrack == KernelPublish(k_now, 0, 0, 0, 80)

NextKernel ==
    \/ CallSensing
    \/ CallMismatched
    \/ PipelineRow
    \/ FuseStep
    \/ ReturnStep
    \/ Lane1Decide
    \/ PublishCrack

\* Lane 1 with frames that show crack evidence, the clock running, and a
\* detector whose timestamps may be of another epoch than the kernel's clock
\* (lane 3 stamps with now_seconds(), the kernel reads get_time_seconds()).
KTimes == {0, 300, 5400}
CallTimed ==
    \E f \in {Bars(0, 102), Bars(0, 255)}, t \in KTimes :
        /\ t >= k_now
        /\ rt_core_process_frame_ptr(f, target_h, target_w, t)
PublishTimed ==
    \E ts \in {0, 300}, r \in {<<0, 80>>, <<70, 0>>} :
        KernelPublish(ts, r[1], 0, 0, r[2])

NextFusion ==
    \/ CallTimed
    \/ PipelineRow
    \/ FuseStep
    \/ ReturnStep
    \/ Lane1Decide
    \/ PublishTimed

(***************************************************************************)
(*                  YoloBondingLayer  (aurasense_yolo_bond.h)              *)
(*                                                                         *)
(* Risks, scores and scales are integers in thousandths; ages in ms.       *)
(***************************************************************************)
min_consecutive_frames == 2
max_yolo_age_ms        == 200
stale_decay_start_ms   == 100

MaxFuse == 3         \* fuse() calls

age_decay(risk, age_ms) ==
    IF age_ms <= stale_decay_start_ms THEN risk
    ELSE IF age_ms >= max_yolo_age_ms THEN 0
    ELSE LET range   == max_yolo_age_ms - stale_decay_start_ms
             elapsed == age_ms - stale_decay_start_ms
         IN  (risk * (range - elapsed)) \div range

\* max_crack_amplification = 2.5: factor = 1 + 1.5 * semantic_risk
fuse_crack(sfsvc_crack_score, yolo_crack_risk, yolo_front_risk) ==
    LET semantic_risk == Max(yolo_crack_risk, yolo_front_risk)
    IN  IF semantic_risk > 300 /\ sfsvc_crack_score > 50
        THEN Min(1000, (sfsvc_crack_score * (2000 + 3 * semantic_risk))
                           \div 2000)
        ELSE IF semantic_risk < 100 /\ sfsvc_crack_score < 100
        THEN sfsvc_crack_score \div 2
        ELSE sfsvc_crack_score

NeutralModifiers ==
    [speed_scale |-> 1000, steer_bias |-> 0, emergency_slow |-> FALSE]

\* max_speed_reduction = 0.70, min_safe_speed_scale = 0.15,
\* max_steer_bias = 0.30
compute_control_modifiers(front_risk, left_risk, right_risk, priority_detections) ==
    LET s1 == IF front_risk > 200
              THEN Max(1000 - (700 * Min(front_risk, 1000)) \div 1000, 150)
              ELSE 1000
        s2 == IF priority_detections > 0 THEN Min(s1, 300) ELSE s1
        asymmetry == left_risk - right_risk
        bias == IF asymmetry >= 0 THEN (300 * asymmetry) \div 1000
                ELSE 0 - ((300 * (0 - asymmetry)) \div 1000)
    IN  [speed_scale |-> s2,
         steer_bias |-> IF Abs(asymmetry) > 100
                        THEN Max(0 - 300, Min(bias, 300)) ELSE 0,
         emergency_slow |-> priority_detections > 0]

\* FusionResult result{} and the defaults fuse() gives it
DefaultFusion(sfsvc_crack_score) ==
    [adjusted_crack_score |-> sfsvc_crack_score,
     control_mods |-> NeutralModifiers,
     yolo_active |-> FALSE, yolo_age_ms |-> 0 - 1,
     temporal_stability |-> 0, yolo_seq |-> 0]

\* A risk on a channel: 0.8 where the detector reports one, else none.
RiskOf(c, hits) == IF c \in hits THEN 800 ELSE 0

\* fuse(sfsvc_crack_score, now_s), the snapshot read being snap: its valid
\* flag, its age_ms as read() computed it, its sequence_id, the channels its
\* risks are on and its priority_detections.
fuse(sfsvc_crack_score, snap) ==
    /\ nfuse < MaxFuse
    /\ nfuse' = nfuse + 1
    /\ fu_in' = [score |-> sfsvc_crack_score, snap |-> snap]
    /\ IF \/ ~snap.valid
          \/ snap.age_ms > max_yolo_age_ms
          \/ snap.age_ms < 0
       THEN /\ fusion' = DefaultFusion(sfsvc_crack_score)
            /\ UNCHANGED filtVars
       ELSE /\ FilterWith(snap.sequence_id, snap.hits)
            /\ UNCHANGED nfilter
            /\ LET dup == SameAsLast(snap.sequence_id)
                   filtered == [c \in Channels |->
                       IF ~dup /\ consec_'[c] >= min_consecutive_frames
                       THEN RiskOf(c, snap.hits) ELSE 0]
                   total_consec == consec_'["front"] + consec_'["left"]
                                   + consec_'["right"] + consec_'["crack"]
                   front == age_decay(filtered["front"], snap.age_ms)
                   left  == age_decay(filtered["left"], snap.age_ms)
                   right == age_decay(filtered["right"], snap.age_ms)
                   crack == age_decay(filtered["crack"], snap.age_ms)
                   has_signal == \/ front > 10 \/ left > 10 \/ right > 10
                                 \/ crack > 10
                                 \/ snap.priority_detections > 0
                   seen == [DefaultFusion(sfsvc_crack_score) EXCEPT
                              !.yolo_age_ms = snap.age_ms,
                              !.yolo_seq = snap.sequence_id,
                              !.temporal_stability =
                                  IF dup THEN 0
                                  ELSE Min(1000, total_consec * 50)]
               IN  fusion' =
                     IF ~has_signal THEN seen
                     ELSE [seen EXCEPT
                             !.yolo_active = TRUE,
                             !.adjusted_crack_score =
                                 fuse_crack(sfsvc_crack_score, crack, front),
                             !.control_mods =
                                 compute_control_modifiers(
                                     front, left, right,
                                     snap.priority_detections)]
    /\ UNCHANGED <<snapVars, rsVars, ringVars, engVars, gateVars, l3Vars,
                   kVars, tailVars>>

\* Lane 1 fuses: the snapshot is the one read last again, or a later one;
\* none was published yet, or its age is any of a few.
FuseAges == {0 - 1, 50, 150, max_yolo_age_ms, max_yolo_age_ms + 1}
Fuse ==
    \E score \in {80, 500}, valid \in BOOLEAN, age \in FuseAges,
       seq \in 1..MaxSeq, hits \in {{}, {"crack"}, {"front", "left"}},
       prio \in {0, 1} :
        /\ seq >= last_seq_
        /\ (f_seen /\ seq = last_seq_) => hits = f_hits
        /\ fuse(score, [valid |-> valid, age_ms |-> age, sequence_id |-> seq,
                        hits |-> hits, priority_detections |-> prio])

NextBond ==
    \/ Fuse
    \/ FilterReset

(***************************************************************************)
(* SignatureBank (signature_bank.hpp).  Floats are thousandths; a          *)
(* descriptor is a vector of two components.                               *)
(***************************************************************************)
max_signatures_       == 1000
match_threshold_      == 300
trace_tau_            == 4
trace_increment_      == 1000
trace_cap_            == 10000
adapt_rate_           == 50
adapt_min_confidence_ == 600
refractory_sec_       == 0
w_gabor_              == 500
w_semantic_           == 300
w_context_            == 100
w_motion_             == 100
MaxSb == 3
MaxSbTime == 2

\* std::numeric_limits<float>::infinity()
Infinity == 1000000000

\* std::sqrt on a non-negative number of millionths, in thousandths, rounded
\* down.
RECURSIVE sqrt_between(_, _, _)
sqrt_between(lo, hi, n) ==
    IF lo >= hi THEN lo
    ELSE LET mid == (lo + hi + 1) \div 2
         IN  IF mid * mid <= n THEN sqrt_between(mid, hi, n)
             ELSE sqrt_between(lo, mid - 1, n)
sqrt_(n) == sqrt_between(0, 4095, n)

\* std::exp(-t), t >= 0 in thousandths: (1 - t/16)^16 by four squarings,
\* exact at 0 and decreasing in t; 0 from t = 16 on.
exp_neg(t) ==
    LET x0 == Max(1000 - t \div 16, 0)
        x1 == (x0 * x0) \div 1000
        x2 == (x1 * x1) \div 1000
        x3 == (x2 * x2) \div 1000
    IN  (x3 * x3) \div 1000

RECURSIVE sum_sq_diff(_, _, _)
sum_sq_diff(a, b, i) ==
    IF i > Min(Len(a), Len(b)) THEN 0
    ELSE (a[i] - b[i]) * (a[i] - b[i]) + sum_sq_diff(a, b, i + 1)

sb_l2_distance(a, b) == sqrt_(sum_sq_diff(a, b, 1))

sb_safe_unit_norm(v) ==
    LET n == sqrt_(sum_sq_diff(v, [i \in 1..Len(v) |-> 0], 1))
    IN  IF n < 1 THEN [i \in 1..Len(v) |-> 0]
        ELSE [i \in 1..Len(v) |-> (v[i] * 1000) \div n]

NoMatchResult ==
    [matched |-> FALSE, signature_id |-> 0 - 1, distance |-> Infinity,
     confidence |-> 0, d_struct |-> 0, avg_luminance |-> 0]

NoDescriptors == [gabor |-> <<>>, semantic |-> <<>>, context |-> <<>>,
                  motion |-> <<>>]

InitSbVars ==
    /\ signatures_ = <<>>
    /\ next_id_ = 0
    /\ total_matches_ = 0 /\ total_registrations_ = 0 /\ total_prunes_ = 0
    /\ sb_now = 1
    /\ sb_reg = NoDescriptors
    /\ sb_last = [op |-> "none", q |-> NoDescriptors, res |-> NoMatchResult,
                  match |-> [matched |-> FALSE, id |-> 0 - 1,
                             confidence |-> 0],
                  queries |-> 0]
    /\ nsb = 0

notSb == <<snapVars, rsVars, ringVars, engVars, filtVars, gateVars, l3Vars,
           kVars, bondVars, ptrVars, rqVars, dmVars>>

decay_trace(sig, now) ==
    IF sig.last_match_time <= 0 THEN sig
    ELSE LET dt == Max(0, now - sig.last_match_time)
         IN  [sig EXCEPT !.persistence_trace =
                 (@ * exp_neg((dt * 1000) \div trace_tau_)) \div 1000]

update_trace(sig, now) ==
    LET s == decay_trace(sig, now)
    IN  [s EXCEPT !.persistence_trace = Min(trace_cap_, @ + trace_increment_),
                  !.last_match_time = now]

ema_update(old_v, new_v, lr) ==
    sb_safe_unit_norm(
        [i \in 1..Len(old_v) |->
            IF i <= Min(Len(old_v), Len(new_v))
            THEN ((1000 - lr) * old_v[i] + lr * new_v[i]) \div 1000
            ELSE old_v[i]])

d_struct_of(qd, sig) ==
    (w_gabor_ * sb_l2_distance(qd.gabor, sig.gabor_fingerprint)
     + w_semantic_ * sb_l2_distance(qd.semantic, sig.semantic_profile))
        \div 1000

d_context_of(qd, sig) ==
    (w_context_ * sb_l2_distance(qd.context, sig.context_vector)
     + w_motion_ * sb_l2_distance(qd.motion, sig.motion_signature))
        \div 1000

\* The scan of find_match_full: the first index of the least distance among
\* the signatures not in their refractory period, 0 if there is none.
best_index_of(qd, now) ==
    LET open == {i \in 1..Len(signatures_) :
                    ~(now < signatures_[i].refractory_until)}
        dist(i) == d_struct_of(qd, signatures_[i])
                   + d_context_of(qd, signatures_[i])
    IN  IF open = {} THEN 0
        ELSE CHOOSE i \in open :
                \A j \in open : dist(i) < dist(j) \/ (dist(i) = dist(j) /\ i <= j)

\* find_match_full: the MatchResult and the bank it leaves.
find_match_full(qd, current_luminance) ==
    LET res0 == [NoMatchResult EXCEPT !.avg_luminance = current_luminance]
        now  == sb_now
        best == best_index_of(qd, now)
        best_dstruct == d_struct_of(qd, signatures_[best])
        best_dist == best_dstruct + d_context_of(qd, signatures_[best])
    IN  IF signatures_ = <<>> \/ best = 0 \/ best_dist > match_threshold_
        THEN [res |-> res0, bank |-> signatures_, matches |-> total_matches_]
        ELSE LET seen == update_trace(
                            [signatures_[best] EXCEPT
                                !.last_seen = now,
                                !.occurrence_count = @ + 1], now)
                 raw_conf == exp_neg((best_dist * 1000) \div match_threshold_)
                 lr == (adapt_rate_ * raw_conf) \div 1000
                 adapted ==
                    IF raw_conf >= adapt_min_confidence_ /\ adapt_rate_ > 0
                    THEN [seen EXCEPT
                            !.gabor_fingerprint = ema_update(@, qd.gabor, lr),
                            !.semantic_profile = ema_update(@, qd.semantic, lr),
                            !.context_vector = ema_update(@, qd.context, lr),
                            !.motion_signature = ema_update(@, qd.motion, lr)]
                    ELSE seen
                 sig == IF refractory_sec_ > 0
                        THEN [adapted EXCEPT
                                !.refractory_until = now + refractory_sec_]
                        ELSE adapted
             IN  [res |-> [res0 EXCEPT !.matched = TRUE,
                                       !.signature_id = sig.signature_id,
                                       !.distance = best_dist,
                                       !.d_struct = best_dstruct],
                  bank |-> [signatures_ EXCEPT ![best] = sig],
                  matches |-> total_matches_ + 1]

confidence_zero(bank, match, growth_risk, growth_accel) == 0

\* compute_confidence on the bank as it is when the reader takes the lock
compute_confidence(bank, match, growth_risk, growth_accel) ==
    LET found == {i \in 1..Len(bank) :
                     bank[i].signature_id = match.signature_id}
    IN  IF ~match.matched \/ found = {} THEN 0
        ELSE LET sig == bank[CHOOSE i \in found : \A j \in found : i <= j]
                 f_struct == exp_neg((2 * match.d_struct * 1000)
                                        \div match_threshold_)
                 f_sim == exp_neg((match.distance * 1000)
                                        \div match_threshold_)
                 f == (700 * f_struct + 300 * f_sim) \div 1000
                 F == Min((sig.persistence_trace * 1000) \div trace_cap_, 1000)
                 Q == 1000 - sig.false_alarm_rate
                 R == sig.historical_risk
                 growth_factor == 1000 + (500 * growth_risk) \div 1000
                                  + (300 * Max(0, growth_accel)) \div 1000
                 fF == (f * F) \div 1000
                 fFQ == (fF * Q) \div 1000
                 fFQR == (fFQ * (1000 - R)) \div 1000
             IN  Max(0, Min(1000, (fFQR * growth_factor) \div 1000))

to_signature_match(bank, m) ==
    [matched |-> m.matched, id |-> m.signature_id,
     confidence |-> compute_confidence(bank, m, 0, 0)]

\* prune: the max(1, size / 10) signatures of least value go.
prune_value(sig, now) ==
    LET recency == exp_neg((Max(0, now - sig.last_seen) * 1000) \div 3600)
        familiarity == Min(1000, sig.occurrence_count * 100)
    IN  (((recency * familiarity) \div 1000) * (sig.historical_risk + 100))
            \div 1000

prune(bank, now) ==
    IF bank = <<>> THEN bank
    ELSE LET remove_n == Max(1, Len(bank) \div 10)
             gone == CHOOSE g \in SUBSET (1..Len(bank)) :
                        /\ Cardinality(g) = remove_n
                        /\ \A i \in g : \A j \in (1..Len(bank)) \ g :
                              prune_value(bank[i], now)
                                  <= prune_value(bank[j], now)
         IN  SelectSeq([i \in 1..Len(bank) |->
                           IF i \in gone THEN [bank[i] EXCEPT !.signature_id = 0 - 2]
                           ELSE bank[i]],
                       LAMBDA s : s.signature_id # 0 - 2)

register_signature(d, initial_risk, avg_luminance) ==
    /\ nsb < MaxSb
    /\ nsb' = nsb + 1
    /\ LET full == Len(signatures_) >= max_signatures_
           kept == IF full THEN prune(signatures_, sb_now) ELSE signatures_
           sig  == [signature_id      |-> next_id_,
                    gabor_fingerprint |-> sb_safe_unit_norm(d.gabor),
                    semantic_profile  |-> sb_safe_unit_norm(d.semantic),
                    context_vector    |-> sb_safe_unit_norm(d.context),
                    motion_signature  |-> sb_safe_unit_norm(d.motion),
                    first_seen        |-> sb_now,
                    last_seen         |-> sb_now,
                    occurrence_count  |-> 1,
                    persistence_trace |-> 0,
                    last_match_time   |-> 0,
                    historical_risk   |-> Max(0, Min(1000, initial_risk)),
                    false_alarm_rate  |-> 0,
                    refractory_until  |-> 0,
                    avg_luminance     |-> avg_luminance]
       IN  /\ signatures_' = Append(kept, sig)
           /\ total_prunes_' = total_prunes_ + (Len(signatures_) - Len(kept))
    /\ next_id_' = next_id_ + 1
    /\ total_registrations_' = total_registrations_ + 1
    /\ sb_reg' = d
    /\ sb_last' = [sb_last EXCEPT !.op = "register", !.q = d, !.queries = 0]
    /\ UNCHANGED <<total_matches_, sb_now>>
    /\ UNCHANGED notSb

\* A caller matches and converts, as lane 2 does: find_match_full, then
\* to_signature_match on the result.
Query(d) ==
    /\ nsb < MaxSb
    /\ nsb' = nsb + 1
    /\ LET r == find_match_full(d, 0)
       IN  /\ signatures_' = r.bank
           /\ total_matches_' = r.matches
           /\ sb_last' = [op |-> "query", q |-> d, res |-> r.res,
                          match |-> to_signature_match(r.bank, r.res),
                          queries |-> sb_last.queries + 1]
    /\ UNCHANGED <<next_id_, total_registrations_, total_prunes_, sb_now,
                   sb_reg>>
    /\ UNCHANGED notSb

\* clear()
SbClear ==
    /\ nsb < MaxSb
    /\ nsb' = nsb + 1
    /\ signatures_' = <<>>
    /\ next_id_' = 0
    /\ total_matches_' = 0 /\ total_registrations_' = 0 /\ total_prunes_' = 0
    /\ sb_reg' = NoDescriptors
    /\ sb_last' = [sb_last EXCEPT !.op = "clear", !.queries = 0]
    /\ UNCHANGED sb_now
    /\ UNCHANGED notSb

\* The steady clock moves on.
SbTick ==
    /\ sb_now < MaxSbTime
    /\ sb_now' = sb_now + 1
    /\ UNCHANGED <<signatures_, next_id_, total_matches_,
                   total_registrations_, total_prunes_, sb_reg, sb_last, nsb>>
    /\ UNCHANGED notSb

\* Descriptor sets a caller passes: four unit vectors along one axis, along
\* the other, the first with its context along the other axis, and the first
\* at twice the length.
Along(v) == [gabor |-> v, semantic |-> v, context |-> v, motion |-> v]
Descriptors ==
    {Along(<<1000, 0>>), Along(<<0, 1000>>),
     [Along(<<1000, 0>>) EXCEPT !.context = <<0, 1000>>],
     Along(<<2000, 0>>)}

SbRegister ==
    \E d \in Descriptors : \E risk \in {0, 100} : register_signature(d, risk, 0)

SbQuery == \E d \in Descriptors : Query(d)

NextBank == SbRegister \/ SbQuery \/ SbClear \/ SbTick

(***************************************************************************)
(* The published record pointers: semantic_state_ (lane 3 publishes, lane  *)
(* 1 reads in semantic_age_ms) and last_sig_match_ (lane 2 publishes, lane *)
(* 3 reads).  Each is an atomic pointer to a heap record; the publisher    *)
(* exchanges in a new record and deletes the old one.                      *)
(***************************************************************************)
NAddr == 3
MaxExchange == 2
MaxLoad == 2
Addrs == 1..NAddr
nullptr == 0

InitPtrVars ==
    /\ ss_ptr = nullptr
    /\ ss_heap = [a \in Addrs |-> [live |-> FALSE, timestamp_ms |-> 0]]
    /\ ss_wpc = "idle" /\ ss_new = nullptr /\ ss_old = nullptr
    /\ ss_rpc = "idle" /\ ss_p = nullptr /\ ss_got = 0 - 1
    /\ ss_dangling = FALSE /\ ss_read_deleted = FALSE
    /\ ss_nx = 0 /\ ss_nl = 0

notPtr == <<snapVars, rsVars, ringVars, engVars, filtVars, gateVars, l3Vars,
            kVars, bondVars, sbVars, rqVars, dmVars>>

\* new SemanticState / std::make_unique<SignatureMatch>, and the fields: the
\* allocator hands out any address that holds no live record.
PtrNew ==
    /\ ss_wpc = "idle" /\ ss_nx < MaxExchange
    /\ \E a \in Addrs :
         /\ ~ss_heap[a].live
         /\ ss_new' = a
         /\ ss_heap' = [ss_heap EXCEPT ![a] =
                           [live |-> TRUE, timestamp_ms |-> ss_nx + 1]]
    /\ ss_wpc' = "xchg"
    /\ UNCHANGED <<ss_ptr, ss_old, ss_rpc, ss_p, ss_got, ss_dangling,
                   ss_read_deleted, ss_nx, ss_nl>>
    /\ UNCHANGED notPtr

\* old = ptr.exchange(new, acq_rel)
PtrExchange ==
    /\ ss_wpc = "xchg"
    /\ ss_old' = ss_ptr
    /\ ss_ptr' = ss_new
    /\ ss_wpc' = "delete"
    /\ UNCHANGED <<ss_heap, ss_new, ss_rpc, ss_p, ss_got, ss_dangling,
                   ss_read_deleted, ss_nx, ss_nl>>
    /\ UNCHANGED notPtr

\* delete old: the record is gone, whoever still holds its address.
PtrDelete ==
    /\ ss_wpc = "delete"
    /\ ss_heap' = IF ss_old = nullptr THEN ss_heap
                  ELSE [ss_heap EXCEPT ![ss_old].live = FALSE]
    /\ ss_dangling' = (ss_dangling
                       \/ (ss_rpc = "read" /\ ss_p # nullptr /\ ss_p = ss_old))
    /\ ss_wpc' = "idle"
    /\ ss_nx' = ss_nx + 1
    /\ UNCHANGED <<ss_ptr, ss_new, ss_old, ss_rpc, ss_p, ss_got,
                   ss_read_deleted, ss_nl>>
    /\ UNCHANGED notPtr

\* state = ptr.load(acquire)
PtrLoad ==
    /\ ss_rpc = "idle" /\ ss_nl < MaxLoad
    /\ ss_p' = ss_ptr
    /\ ss_rpc' = "read"
    /\ ss_dangling' = FALSE
    /\ UNCHANGED <<ss_ptr, ss_heap, ss_wpc, ss_new, ss_old, ss_got,
                   ss_read_deleted, ss_nx, ss_nl>>
    /\ UNCHANGED notPtr

\* if (!state) return 99999.0;  ... state->timestamp_ms.  Reading through
\* the address of a deleted record is undefined: the read returns what the
\* record held, what a record allocated there since holds, or anything.
PtrRead ==
    /\ ss_rpc = "read"
    /\ IF ss_p = nullptr
       THEN ss_got' = 0 - 1 /\ UNCHANGED ss_read_deleted
       ELSE IF ss_dangling
       THEN /\ ss_got' \in 0..MaxExchange
            /\ ss_read_deleted' = TRUE
       ELSE /\ ss_got' = ss_heap[ss_p].timestamp_ms
            /\ UNCHANGED ss_read_deleted
    /\ ss_rpc' = "idle"
    /\ ss_nl' = ss_nl + 1
    /\ UNCHANGED <<ss_ptr, ss_heap, ss_wpc, ss_new, ss_old, ss_p,
                   ss_dangling, ss_nx>>
    /\ UNCHANGED notPtr

NextPtr ==
    \/ PtrNew
    \/ PtrExchange
    \/ PtrDelete
    \/ PtrLoad
    \/ PtrRead

(***************************************************************************)
(* LockFreeQueue: push_wait by the producer thread, and size_approx() /    *)
(* stats() by a thread that is neither the producer nor the consumer.      *)
(***************************************************************************)
MaxWait == 1
MaxSpin == 1
MaxObserve == 1

\* size_t arithmetic wraps; the model keeps 20 bits of it, more than any
\* index of the model needs.
SizeMod == 1048576

NoStats == [push_count |-> 0, pop_count |-> 0, drop_count |-> 0,
            current_size |-> 0, queue_capacity |-> RingN, fill_ratio |-> 0]

InitRqVars ==
    /\ pw_pc = "idle" /\ pw_item = NoItem /\ pw_spins = 0
    /\ pw_true = 0 /\ pw_false = 0 /\ npw = 0
    /\ ob_pc = "idle" /\ ob_t = 0 /\ ob_stats = NoStats /\ nob = 0

pwVars == <<pw_pc, pw_item, pw_spins, pw_true, pw_false, npw>>
obVars == <<ob_pc, ob_t, ob_stats, nob>>
notRq == <<snapVars, rsVars, engVars, filtVars, gateVars, l3Vars,
           kVars, bondVars, sbVars, ptrVars, dmVars>>

\* push_wait(item, timeout): the deadline is taken, the loop is entered.
PwBegin ==
    /\ pr_pc = "idle" /\ pw_pc = "idle" /\ npw < MaxWait
    /\ npw' = npw + 1
    /\ pw_item' = Item(100 + npw)
    /\ pw_spins' = 0
    /\ pw_pc' = "try"
    /\ UNCHANGED <<pw_true, pw_false, obVars, ringVars, notRq>>

\* while (!try_push(std::move(item))): one try_push, that is one push_impl.
PwTry ==
    /\ pw_pc = "try"
    /\ LET tail == tail_
           full_cached == IsFull(tail, cached_head_)
           full == full_cached /\ IsFull(tail, head_)
       IN  /\ cached_head_' = IF full_cached THEN head_ ELSE cached_head_
           /\ IF full
              THEN /\ drop_count_' = drop_count_ + 1
                   /\ pw_pc' = "check"
                   /\ UNCHANGED <<tail_, push_count_, buffer_, pushed,
                                  pw_true>>
              ELSE /\ buffer_' = [buffer_ EXCEPT ![Slot(tail)] = pw_item]
                   /\ tail_' = tail + 1
                   /\ push_count_' = push_count_ + 1
                   /\ pushed' = Append(pushed, pw_item)
                   /\ pw_true' = pw_true + 1
                   /\ pw_pc' = "idle"
                   /\ UNCHANGED drop_count_
    /\ UNCHANGED <<head_, cached_tail_, pop_count_, prLocal, coLocal, popped,
                   pw_item, pw_spins, pw_false, npw, obVars, notRq>>

\* if (steady_clock::now() >= deadline) { drop_count_++; return false; }
\* bo.spin();
PwCheck ==
    /\ pw_pc = "check"
    /\ \/ /\ drop_count_' = drop_count_ + 1
          /\ pw_false' = pw_false + 1
          /\ pw_pc' = "idle"
          /\ UNCHANGED pw_spins
       \/ /\ pw_spins < MaxSpin
          /\ pw_spins' = pw_spins + 1
          /\ pw_pc' = "try"
          /\ UNCHANGED <<drop_count_, pw_false>>
    /\ UNCHANGED <<tail_, head_, cached_head_, cached_tail_, push_count_,
                   pop_count_, buffer_, prLocal, coLocal, pushed, popped,
                   pw_item, pw_true, npw, obVars, notRq>>

\* stats(): the three counters, then size_approx()'s  t = tail_.load(acquire)
ObLoadTail ==
    /\ ob_pc = "idle" /\ nob < MaxObserve
    /\ ob_t' = tail_
    /\ ob_stats' = [ob_stats EXCEPT !.push_count = push_count_,
                                    !.pop_count = pop_count_,
                                    !.drop_count = drop_count_]
    /\ ob_pc' = "head"
    /\ UNCHANGED <<nob, pwVars, ringVars, notRq>>

\* size_approx(): return t - h, on size_t
size_approx(t, h) == (t - h) % SizeMod

\* h = head_.load(acquire); return t - h;
\* {p, c, d, sz, N, float(sz) / float(N)}, the ratio in hundredths
ObLoadHead ==
    /\ ob_pc = "head"
    /\ LET sz == size_approx(ob_t, head_)
       IN  ob_stats' = [ob_stats EXCEPT !.current_size = sz,
                                        !.fill_ratio = (100 * sz) \div RingN]
    /\ ob_pc' = "idle"
    /\ nob' = nob + 1
    /\ UNCHANGED <<ob_t, pwVars, ringVars, notRq>>

NextPushWait ==
    \/ NextRing
    \/ PwBegin
    \/ PwTry
    \/ PwCheck

NextRingStats ==
    \/ NextRing
    \/ ObLoadTail
    \/ ObLoadHead

(***************************************************************************)
(* DroneMiddleware and its DegradedModePolicy.  The failsafe monitor is    *)
(* its verdict on each signal, an input of evaluate_and_update().          *)
(***************************************************************************)
MaxDm == 4

Statuses == {"OK", "WARNING", "CRITICAL"}
Signals == {"battery", "motor", "gps", "camera"}

InitDmVars ==
    /\ current_mode_ = "FULL_PERFORMANCE"
    /\ last_status_ = "OK"
    /\ transition_count_ = 0
    /\ emergency_land_active_ = FALSE
    /\ emergency_action_ = "NONE"
    /\ ndm = 0

notDm == <<snapVars, rsVars, ringVars, engVars, filtVars, gateVars, l3Vars,
           kVars, bondVars, sbVars, ptrVars, rqVars>>

\* FailsafeMonitor::evaluate(): the worst verdict over the signals.
evaluate(sig) ==
    IF \E s \in Signals : sig[s] = "CRITICAL" THEN "CRITICAL"
    ELSE IF \E s \in Signals : sig[s] = "WARNING" THEN "WARNING"
    ELSE "OK"

determine_emergency_action(sig) ==
    IF sig["battery"] = "CRITICAL" \/ sig["motor"] = "CRITICAL"
    THEN "LAND_IMMEDIATELY"
    ELSE IF sig["gps"] = "CRITICAL" THEN "HOVER_IN_PLACE"
    ELSE "CONTROLLED_DESCENT"

\* DegradedModePolicy::update: the target mode of a failsafe status.
update_target(current, status) ==
    CASE status = "OK" -> "FULL_PERFORMANCE"
      [] status = "WARNING" -> "REDUCED_PERFORMANCE"
      [] status = "CRITICAL" -> "MINIMAL_SAFE_MODE"
      [] OTHER -> "EMERGENCY_SHUTDOWN"

\* transition_to(new_mode): the count after the exchange.
transitions_after(old_mode, new_mode) ==
    IF old_mode # new_mode THEN transition_count_ + 1 ELSE transition_count_

EvaluateAndUpdate ==
    /\ ndm < MaxDm
    /\ ndm' = ndm + 1
    /\ \E sig \in [Signals -> Statuses] :
         LET overall == evaluate(sig)
             target == update_target(current_mode_, overall)
             action == determine_emergency_action(sig)
             land == /\ overall = "CRITICAL"
                     /\ action = "LAND_IMMEDIATELY"
                     /\ ~emergency_land_active_
             mode1 == target
         IN  /\ last_status_' = overall
             /\ current_mode_' = IF land THEN "EMERGENCY_SHUTDOWN" ELSE mode1
             /\ transition_count_' =
                  LET c1 == transitions_after(current_mode_, mode1)
                  IN  IF land /\ mode1 # "EMERGENCY_SHUTDOWN"
                      THEN c1 + 1 ELSE c1
             /\ emergency_action_' = IF overall = "CRITICAL" THEN action
                                     ELSE emergency_action_
             /\ emergency_land_active_' = (emergency_land_active_ \/ land)
    /\ UNCHANGED notDm

TriggerEmergencyLanding ==
    /\ ndm < MaxDm
    /\ ndm' = ndm + 1
    /\ emergency_land_active_' = TRUE
    /\ emergency_action_' = "LAND_IMMEDIATELY"
    /\ current_mode_' = "EMERGENCY_SHUTDOWN"
    /\ transition_count_' =
         transitions_after(current_mode_, "EMERGENCY_SHUTDOWN")
    /\ UNCHANGED <<last_status_, notDm>>

CancelEmergencyLanding ==
    /\ ndm < MaxDm
    /\ ndm' = ndm + 1
    /\ emergency_land_active_' = FALSE
    /\ emergency_action_' = "NONE"
    /\ UNCHANGED <<current_mode_, last_status_, transition_count_, notDm>>

NextMiddleware ==
    \/ EvaluateAndUpdate
    \/ TriggerEmergencyLanding
    \/ CancelEmergencyLanding

InitTail == InitSbVars /\ InitPtrVars /\ InitRqVars /\ InitDmVars

(***************************************************************************)
(*                            Specifications                               *)
(***************************************************************************)

\* The snapshot protocols alone, the engine at rest.
InitSnap ==
    /\ InitSnapVars /\ snapImpl \in {"bond", "rtcore"}
    /\ InitRingVars
    /\ InitEngVars /\ impl = "engine"
    /\ InitFiltVars
    /\ InitGateVars
    /\ cfg_ = 1..5
    /\ InitKVars /\ TargetSmall
    /\ InitBondVars /\ InitTail
SpecSnap == InitSnap /\ [][NextSnap]_vars

\* The snapshot protocols with rt_core_yolo_reset callable at any time.
NextSnapReset ==
    \/ NextSnap
    \/ RtResetBegin
    \/ RtResetWrite
SpecSnapReset == InitSnap /\ [][NextSnapReset]_vars

\* One LockFreeQueue with its producer and its consumer.
InitRing ==
    /\ InitRingVars
    /\ InitSnapVars /\ snapImpl = "bond"
    /\ InitEngVars /\ impl = "engine"
    /\ InitFiltVars
    /\ InitGateVars
    /\ cfg_ = 1..5
    /\ InitKVars /\ TargetSmall
    /\ InitBondVars /\ InitTail
SpecRing == InitRing /\ [][NextRing]_vars

InitEngine ==
    /\ InitEngVars /\ impl = "engine"
    /\ InitSnapVars /\ snapImpl = "bond"
    /\ InitRingVars
    /\ InitFiltVars
    /\ InitGateVars
    /\ cfg_ = 1..5
    /\ InitKVars /\ TargetSmall
    /\ InitBondVars /\ InitTail

Init ==
    /\ InitEngVars /\ impl \in {"engine", "backup"}
    /\ InitSnapVars /\ snapImpl = "bond"
    /\ InitRingVars
    /\ InitFiltVars
    /\ InitGateVars
    /\ cfg_ = 1..5
    /\ InitKVars /\ TargetSmall
    /\ InitBondVars /\ InitTail

\* Either implementation, _emergency_stop never called; lanes 2, 3, 5 touch
\* nothing but their own ring's head and are left waiting.
SpecPath == Init /\ [][NextPath]_vars

\* Either implementation, with _emergency_stop.
Spec == Init /\ [][Next]_vars

\* engine.cpp, lanes 1, 4, 6 and the callers.
SpecEngine == InitEngine /\ [][NextEngine]_vars

\* engine.cpp after DroppedFrames push_frame calls into a camera ring that
\* nothing has dequeued from yet: the ring holds the first RingN jobs, the
\* others were refused, and each call took a frame_id.  One more call of
\* push_frame is to come.
DroppedFrames == RingN + 1

InitDropped ==
    /\ impl = "engine"
    /\ running_ = FALSE
    /\ handle = [k \in Lanes |-> "empty"]
    /\ terminated = FALSE
    /\ lane_pc = [k \in Lanes |-> "off"]
    /\ m_pc = "idle" /\ m_last = "none" /\ npush = MaxFrames - 1
    /\ e_pc = "idle" /\ e_fid = 0 /\ nemerg = 0
    /\ frame_id_ = DroppedFrames /\ g_frame_count = 0
    /\ q = [n \in QNames |->
              IF n = "cam" THEN [i \in 1..RingN |-> FrameJob(i - 1)]
              ELSE <<>>]
    /\ qdrop = [n \in QNames |->
                  IF n = "cam" THEN DroppedFrames - RingN ELSE 0]
    /\ cb_buf = [i \in 0..(RingN - 1) |-> RawJob]
    /\ cb_tail = 0 /\ cb_head = 0 /\ cb_cached_head = 0 /\ cb_cached_tail = 0
    /\ cb_drop = 0 /\ cb_mutex = 0
    /\ cb_ptail = [p \in Pushers |-> 0]
    /\ l1_job = NoFrame /\ l1_out = 0 /\ l4_job = NoJob
    /\ assigned = [i \in 1..DroppedFrames |-> i - 1]
    /\ l1_log = <<>> /\ dispatched = <<>>
    /\ l3_log = <<>>
    /\ cfg_ = 1..5
    /\ ctrl_acc = {} /\ ctrl_rej = {}
    /\ last_in = [s \in Stages |-> 0 - 1]
    /\ regressed = {}
    /\ InitSnapVars /\ snapImpl = "bond"
    /\ InitRingVars
    /\ InitFiltVars
    /\ InitGateVars
    /\ InitKVars /\ TargetSmall
    /\ InitBondVars /\ InitTail

\* The engine started once and never stopped; lanes 1, 4 and 6 run.
NextDropped ==
    \/ Start
    \/ PushFrame
    \/ \E k \in {1, 4, 6} : LaneEnter(k)
    \/ L1Pop
    \/ L1Proc
    \/ L1Fan
    \/ L1CtrlBegin
    \/ L1CtrlEnd
    \/ L1Up
    \/ L4Pop
    \/ L4CbBegin
    \/ L4CbEnd
    \/ L6Pop

SpecDropped == InitDropped /\ [][NextDropped]_vars

\* engine.cpp, every lane.
SpecLanes == InitEngine /\ [][NextLanes]_vars

\* One TemporalConsistencyFilter and the snapshots presented to it.
SpecFilter == InitEngine /\ [][NextFilter]_vars

\* One GatingEngine, constructed with any of a few configurations, and its
\* caller.
InitGate ==
    /\ InitEngVars /\ impl = "backup"
    /\ InitSnapVars /\ snapImpl = "bond"
    /\ InitRingVars
    /\ InitFiltVars
    /\ \E mf \in {1, 3}, cc \in {0, 60} : GateConstructed(75, mf, 3, cc)
    /\ cfg_ = 1..5
    /\ InitKVars /\ TargetSmall
    /\ InitBondVars /\ InitTail
SpecGate == InitGate /\ [][NextGate]_vars

\* One GatingEngine whose configuration stays as constructed, the skip limits
\* being of frames, of time or of both, and any caller of decide() and reset().
InitGateFixed ==
    /\ InitEngVars /\ impl = "backup"
    /\ InitSnapVars /\ snapImpl = "bond"
    /\ InitRingVars
    /\ InitFiltVars
    /\ \E mf \in {1, 2, 3}, mt \in {3, 60} : GateConstructed(75, mf, mt, 60)
    /\ cfg_ = 1..5
    /\ InitKVars /\ TargetSmall
    /\ InitBondVars /\ InitTail
NextGateFixed ==
    \/ DecideAny
    \/ GateReset
SpecGateFixed == InitGateFixed /\ [][NextGateFixed]_vars

\* Either implementation, lanes 1 and 3 at work, publishing through rt_core.
InitL3 ==
    /\ InitEngVars /\ impl \in {"engine", "backup"}
    /\ InitSnapVars /\ snapImpl = "rtcore"
    /\ InitRingVars
    /\ InitFiltVars
    /\ InitGateVars
    /\ cfg_ = 1..5
    /\ InitKVars /\ TargetSmall
    /\ InitBondVars /\ InitTail
SpecL3 == InitL3 /\ [][NextL3]_vars

\* Either implementation, every lane, started with one of several
\* EngineConfigs: the default, and lanes 1, 3, 4 or 2 and 5 disabled.
NextCfg ==
    \/ NextPath
    \/ \E k \in Lanes : SinkPop(k)
InitCfg ==
    /\ InitEngVars /\ impl \in {"engine", "backup"}
    /\ InitSnapVars /\ snapImpl = "bond"
    /\ InitRingVars
    /\ InitFiltVars
    /\ InitGateVars
    /\ cfg_ \in {1..5, 2..5, {1, 2, 4, 5}, {1, 2, 3, 5}, {1, 3, 4}}
    /\ InitKVars /\ TargetSmall
    /\ InitBondVars /\ InitTail
SpecCfg == InitCfg /\ [][NextCfg]_vars

\* The sensing kernel behind lane 1 of engine.cpp, assert() compiled out.
InitKernel ==
    /\ InitEngVars /\ impl = "engine"
    /\ InitSnapVars /\ snapImpl = "rtcore"
    /\ InitRingVars
    /\ InitFiltVars
    /\ InitGateVars
    /\ cfg_ = 1..5
    /\ InitKVars /\ TargetSmall
    /\ InitBondVars /\ InitTail
SpecKernel == InitKernel /\ [][NextKernel]_vars

\* The frames the test program hands to the kernel, in the order of run_all:
\* test_zero_delta (128, 128), then test_large_delta (50, 150).
TestFrames == <<Uniform(128), Uniform(128), Uniform(50), Uniform(150)>>

\* One call of the test program, at the resolution of the build.
CallTest ==
    /\ nkernel < Len(TestFrames)
    /\ rt_core_process_frame_ptr(TestFrames[nkernel + 1], TARGET_HEIGHT,
                                 TARGET_WIDTH, k_now)

\* The test program takes the returned ControlOutput and goes on.
TestTake ==
    /\ k_pc = "ret"
    /\ k_pc' = "idle"
    /\ UNCHANGED <<assert_on, target_w, target_h, g_curr_gray_u8,
                   g_prev_gray_u8, k_in, k_t, pipeVars, output, decision,
                   k_yolo, k_now, k_log, nkernel, nyolo, g_frame_count>>
    /\ UNCHANGED notKernel

NextTest ==
    \/ CallTest
    \/ PipelineRow
    \/ FuseStep
    \/ ReturnStep
    \/ TestTake

\* The test program: the kernel as built, 416 x 234, driven through the C API.
InitTest ==
    /\ InitEngVars /\ impl = "engine"
    /\ InitSnapVars /\ snapImpl = "rtcore"
    /\ InitRingVars
    /\ InitFiltVars
    /\ InitGateVars
    /\ cfg_ = 1..5
    /\ InitKVars
    /\ target_w = TARGET_WIDTH /\ target_h = TARGET_HEIGHT
    /\ assert_on = FALSE
    /\ InitBondVars /\ InitTail
SpecTest == InitTest /\ [][NextTest]_vars

\* The ring with a producer that also calls push_wait.
SpecPushWait == InitRing /\ [][NextPushWait]_vars

\* The ring with a third thread that asks for its size.
SpecRingStats == InitRing /\ [][NextRingStats]_vars

\* One DroneMiddleware and the calls of its owner.
SpecMiddleware == InitEngine /\ [][NextMiddleware]_vars

\* A publishing lane and a reading lane on one record pointer.
SpecPtr == InitEngine /\ [][NextPtr]_vars

\* The signature bank and its callers.
SpecBank == InitEngine /\ [][NextBank]_vars

\* The sensing kernel behind either implementation of lane 1, in a build
\* with or without assert().
InitSensing ==
    /\ InitEngVars /\ impl \in {"engine", "backup"}
    /\ InitSnapVars /\ snapImpl = "rtcore"
    /\ InitRingVars
    /\ InitFiltVars
    /\ InitGateVars
    /\ cfg_ = 1..5
    /\ InitKVars
    /\ target_w = SmallW /\ target_h = SmallH
    /\ assert_on \in BOOLEAN
    /\ InitBondVars /\ InitTail
SpecSensing == InitSensing /\ [][NextKernel]_vars

\* Either implementation of lane 1 with the clock running and snapshots of
\* any age.
InitFusion ==
    /\ InitEngVars /\ impl \in {"engine", "backup"}
    /\ InitSnapVars /\ snapImpl = "rtcore"
    /\ InitRingVars
    /\ InitFiltVars
    /\ InitGateVars
    /\ cfg_ = 1..5
    /\ InitKVars /\ TargetSmall
    /\ InitBondVars /\ InitTail
SpecFusion == InitFusion /\ [][NextFusion]_vars

\* One YoloBondingLayer and the snapshots lane 1 reads for it.
SpecBond == InitEngine /\ [][NextBond]_vars

\* The snapshot protocols with a reader that keeps reading: lane 1 reads
\* the snapshot once in every cycle.
NextRead ==
    \/ ReadLoad \/ ReadCopy \/ ReadReturn
    \/ RtReadLoad \/ RtReadCopy
FairSnap == SpecSnap /\ WF_vars(NextRead)

\* engine.cpp with every thread that can take a step taking one in the end:
\* the lanes and the callers are threads the scheduler keeps running.
FairEngine == SpecEngine /\ WF_vars(NextEngine)

\* engine.cpp with a dispatcher that is seen inside the user's callback.
\* Lanes 1 and 4 are threads the scheduler keeps running; nothing makes the
\* callback return.  stop() is left out: it would wait in join() for the
\* dispatcher.
L1Steps ==
    \/ LaneEnter(1) \/ L1Pop \/ L1Proc \/ L1Fan
    \/ L1CtrlBegin \/ L1CtrlEnd \/ L1Up
L4Steps ==
    \/ LaneEnter(4) \/ L4Pop \/ L4CbBegin \/ L4CbEnd
NextBlocked ==
    \/ Start
    \/ PushFrame
    \/ LaneEnter(6)
    \/ L1Steps
    \/ L4Steps
    \/ L6Invoke
    \/ L6Return
SpecBlocked == InitEngine /\ [][NextBlocked]_vars
FairBlocked == SpecBlocked /\ WF_vars(L1Steps) /\ WF_vars(L4Steps)

(***************************************************************************)
(*                               Claims                                    *)
(***************************************************************************)

\* A whole record of one publish (or the record the buffers start with).
Whole(s) ==
    \/ s = ZeroSlot
    \/ \E k \in 1..MaxPublish :
         s = [seq |-> IF snapImpl = "bond" THEN k - 1 ELSE 0,
              valid |-> TRUE, a |-> k, b |-> k]

\* C1: every snapshot the reader obtains is a whole record of exactly one
\* publish: its sequence_id and its body fields come from the same publish.
C1_NoTornRead == rd_pc = "done" => Whole(rd_snap)

\* C2: with one producer and one consumer the values returned by successful
\* pops are the values accepted by successful pushes, in the same order and
\* each at most once, and no pop returns an element under construction.
C2_Fifo ==
    /\ IsPrefix(popped, pushed)
    /\ \A i \in 1..Len(popped) : popped[i] \notin {Raw, Partial, NoItem}
    /\ co_pc = "publish" => co_out \notin {Raw, Partial, NoItem}

\* C2 witness: the ring has wrapped and every accepted value was popped.
C2_Witness == Len(popped) > RingN /\ popped = pushed

\* C3: from an empty ring with no pop in between, N try_push calls succeed,
\* the (N+1)-th fails, and that failure raises the drop counter by exactly 1.
C3_BurstFillsThenDrops ==
    co_calls = 0 =>
        /\ push_count_ = Min(Len(pushed), RingN)
        /\ Len(pushed) = Min(pr_done, RingN)
        /\ drop_count_ = pr_done - Len(pushed)
        /\ (pr_done = RingN + 1 => drop_count_ = 1 /\ tail_ = RingN)

\* C3 witness: N pushes accepted, the (N+1)-th refused and counted once.
C3_Witness ==
    co_calls = 0 /\ pr_done = RingN + 1 /\ push_count_ = RingN /\ drop_count_ = 1

\* Pusher p is between the two halves of a push on the callback ring.
InPush(p) ==
    CASE p = 1     -> lane_pc[1] = "ctrl_w"
      [] p = 4     -> lane_pc[4] = "cb_w"
      [] p = Emerg -> e_pc = "push_w"

\* The job is in the live part of the callback ring.
InRing(job) ==
    \E i \in cb_head..(cb_tail - 1) : cb_buf[Slot(i)] = job

Dispatched(job) == \E i \in 1..Len(dispatched) : dispatched[i] = job

\* C4: every push onto the lane-6 callback ring, whoever makes it (lane 1,
\* lane 4 or _emergency_stop), is made while holding the one mutex of that
\* ring, so no two pushes on it are ever in progress together.
C4_PushUnderMutex ==
    /\ \A p \in Pushers : InPush(p) => cb_mutex = p
    /\ \A p1, p2 \in Pushers : InPush(p1) /\ InPush(p2) => p1 = p2

\* C5: for each frame lane 1 dequeues, its one CONTROL job is either accepted
\* by the callback ring, and then stays there until lane 6 dispatches it, or
\* refused because the ring is full, and then counted as a drop; none is
\* lost without a count.
C5_NoSilentLoss ==
    /\ \A n \in ctrl_acc :
         InRing(ControlJob(n, n)) \/ Dispatched(ControlJob(n, n))
    /\ ctrl_acc \cap ctrl_rej = {}
    /\ Cardinality(ctrl_rej) <= cb_drop

\* C6 as stated: within one frame lane 1 enqueues the ControlDecision to
\* lane 6 only after it has enqueued the UplinkPayload to lane 4.
C6_ControlAfterUplink ==
    \A i \in 1..Len(l1_log) :
        l1_log[i][1] = "ctrl" =>
            \E j \in 1..(i - 1) : l1_log[j] = <<"up", l1_log[i][2]>>

\* C6 amended: within one frame lane 1 enqueues the UplinkPayload to lane 4
\* only after it has attempted the push of that frame's ControlDecision to
\* lane 6.
C6_UplinkAfterControl ==
    \A i \in 1..Len(l1_log) :
        l1_log[i][1] = "up" =>
            \E j \in 1..(i - 1) : l1_log[j] = <<"ctrl", l1_log[i][2]>>

\* C6 witness: lane 1 has done both enqueues for two frames.
C6_Witness ==
    /\ Len(l1_log) = 4
    /\ l1_log[3] = <<"ctrl", 1>> /\ l1_log[4] = <<"up", 1>>

\* C7: in engine.cpp the CONTROL job of a frame is pushed onto the callback
\* ring before the UPLINK job of the same frame, so lane 6 never invokes the
\* uplink callback of a frame before the control callback of that frame.
C7_ControlDispatchedFirst ==
    /\ \A i, j \in 1..Len(dispatched) :
         (/\ i < j
          /\ dispatched[i].type = "UPLINK"
          /\ dispatched[j].type = "CONTROL")
         => dispatched[i].src # dispatched[j].src
    /\ \A i \in cb_head..(cb_tail - 1) :
         cb_buf[Slot(i)].type = "UPLINK"
         => cb_buf[Slot(i)].src \in ctrl_acc \cup ctrl_rej

\* C7 witness: lane 6 has invoked the control callback and then the uplink
\* callback of the second frame.
C7_Witness ==
    \E i, j \in 1..Len(dispatched) :
        /\ i < j
        /\ dispatched[i].type = "CONTROL" /\ dispatched[i].src = 1
        /\ dispatched[j].type = "UPLINK" /\ dispatched[j].src = 1

\* C8: every call of push_frame gives its frame the frame_id of the previous
\* call plus one.
C8_FrameIdIncrements ==
    \A i \in 2..Len(assigned) : assigned[i] = assigned[i - 1] + 1

\* C9: at every stage that carries a frame_id (the jobs entering lanes 2, 3,
\* 4, 5 and the CONTROL and UPLINK jobs lane 6 dispatches) the frame_ids of
\* successive items never decrease.
C9_MonotoneFrameIds == regressed = {}

\* C10: when stop() has returned, running_ is false and every lane thread
\* that start() launched has returned and been joined, whatever start, stop
\* and _emergency_stop calls came before.
C10_StopJoinsAll ==
    (m_last = "stop" /\ m_pc = "idle") =>
        /\ ~running_
        /\ \A k \in Lanes : handle[k] = "empty"

\* _emergency_stop() has stopped a started engine: running_ is false, stop()
\* is not joining, and the dispatcher thread was launched.
EmergencyStopped ==
    /\ nemerg > 0 /\ e_pc = "idle"
    /\ ~running_ /\ m_pc = "idle"
    /\ handle[6] = "joinable"

\* The control callback has run on the synthetic decision (throttle 0) that
\* _emergency_stop makes.
SyntheticDelivered ==
    \E i \in 1..Len(dispatched) :
        dispatched[i].type = "CONTROL" /\ dispatched[i].src = 0 - 1

\* C11: once _emergency_stop() has set running_ to false on a started
\* engine, the control callback is eventually invoked with a synthetic
\* decision whose throttle is zero.
C11_EmergencyDelivers == EmergencyStopped ~> SyntheticDelivered

\* The record the k-th publish leaves in its slot.
Published(k) ==
    [seq |-> IF snapImpl = "bond" THEN k - 1 ELSE 0,
     valid |-> TRUE, a |-> k, b |-> k]

\* A read cycle that began after the latest publish completed returns it.
ReadsLatest ==
    (rd_pc = "done" /\ npub > 0 /\ rd_at = npub) => rd_snap = Published(npub)

\* C12: after a publish, if no later publish occurs, lane 1 observes that
\* snapshot within a bounded number of its cycles: every read cycle begun
\* after the publish returns it (so at most one cycle, the one in progress,
\* misses it), and such a cycle does come.
C12_LatestObserved ==
    /\ []ReadsLatest
    /\ \A k \in 1..MaxPublish :
         (npub = k /\ wr_pc = "idle")
           ~> (npub > k \/ (rd_pc = "done" /\ rd_snap = Published(k)))

\* C12 witness: a read begun after the last publish has returned it.
C12_Witness ==
    /\ rd_pc = "done" /\ npub = MaxPublish /\ rd_at = npub
    /\ rd_snap = Published(npub)

\* C13: a filter() call that presents the snapshot of the call before (the
\* same sequence_id) changes none of the filter's state, whatever
\* sequence_id publish gave that snapshot (the first publish gives 0).
C13_DuplicateIgnored ==
    [][(nfilter' = nfilter + 1 /\ f_dup')
         => UNCHANGED <<consec_, gap_, last_seq_>>]_vars

\* C14: whenever an operation is about to store into a snapshot slot (a
\* publish filling its slot, rt_core_yolo_reset clearing one), that slot is
\* not the one the active index selects.
C14_NeverWritesActive ==
    /\ wr_pc \in {"copy_hdr", "copy_a", "copy_b", "stamp",
                  "write_a", "write_b", "write_valid"} => wr_idx # active_
    /\ rs_pc \in {"valid", "timestamp"} => rs_i # active_


\* The conditions of the cascade at the last decide() call, in their fixed
\* order, with the time since the last inference measured from the last run
\* decision (taken to exceed max_skip_time_ms when there was none).
Cascade ==
    << <<"ForcedInfer", g_args.force>>,
       <<"CriticalCrack", g_args.crack >= critical_crack_threshold_>>,
       <<"MaxSkipFrames", g_args.frames >= max_skip_frames_>>,
       <<"MaxSkipTime", g_args.ms_since >= max_skip_time_ms_>>,
       <<"NovelScene", ~g_args.matched>>,
       <<"LowConfidence", g_args.conf < confidence_threshold_>> >>

FirstHolding ==
    IF \E i \in 1..Len(Cascade) : Cascade[i][2]
    THEN Cascade[CHOOSE i \in 1..Len(Cascade) :
                   /\ Cascade[i][2]
                   /\ \A j \in 1..(i - 1) : ~Cascade[j][2]][1]
    ELSE "HighConfidenceSkip"

FirstCall == g_last = "decide" /\ g_args.fresh

QuietArgs ==
    /\ ~g_args.force
    /\ g_args.crack = 0
    /\ g_args.matched
    /\ g_args.conf = 99

\* C16, as stated: the first decide() call on an engine on which no inference
\* has occurred returns should_infer = true, and with crack = 0.0, matched =
\* true, confidence = 0.99 and no force flag its reason is MaxSkipTime.
C16_FirstIsMaxSkipTime ==
    FirstCall =>
        /\ gd.should_infer
        /\ QuietArgs => gd.reason = "MaxSkipTime"

\* C16, amended: the first decide() call returns should_infer = true; with
\* those arguments its reason is MaxSkipTime when max_skip_frames is above 1
\* and the critical threshold above 0, MaxSkipFrames or CriticalCrack when
\* not.
C16_FirstRuns ==
    FirstCall =>
        /\ gd.should_infer
        /\ QuietArgs =>
             gd.reason = IF critical_crack_threshold_ <= 0 THEN "CriticalCrack"
                         ELSE IF max_skip_frames_ <= 1 THEN "MaxSkipFrames"
                         ELSE "MaxSkipTime"

C16_Witness ==
    /\ FirstCall
    /\ QuietArgs
    /\ ndecide = 1
    /\ gd.should_infer
    /\ gd.reason = "MaxSkipTime"


\* C17: after reset() in any reachable state, get_stats() returns every
\* counter and streak as zero, and the next decide() call returns
\* should_infer = true whatever its arguments.
C17_ResetThenRun ==
    /\ g_since_reset = 0 =>
         get_stats = [total_decisions |-> 0, infer_count |-> 0,
                      skip_count |-> 0, current_skip_streak |-> 0,
                      max_skip_streak |-> 0, suppression_rate |-> 0,
                      avg_skip_streak |-> 0]
    /\ (g_last = "decide" /\ g_since_reset = 1) => gd.should_infer

\* reset() after several decisions, then a decide() call that no test before
\* MaxSkipTime makes run.
C17_Witness ==
    /\ g_last = "decide"
    /\ g_since_reset = 1
    /\ ndecide >= 3
    /\ QuietArgs
    /\ gd.reason = "MaxSkipTime"
    /\ get_stats.total_decisions = 1
    /\ get_stats.infer_count = 1


\* C18: every run outcome of decide() resets frames_since_last_infer and the
\* current skip streak to zero and records last_infer_time_ms as the time
\* passed to the call; every skip outcome increments the current skip streak
\* by one, raises max_skip_streak to at least the new streak and leaves
\* last_infer_time_ms unchanged.
C18_RunAndSkipEffects ==
    [][ndecide' = ndecide + 1 =>
         IF gd'.should_infer
         THEN /\ frames_since_last_infer_' = 0
              /\ current_skip_streak_' = 0
              /\ last_infer_time_ms_' = g_args'.t
         ELSE /\ current_skip_streak_' = current_skip_streak_ + 1
              /\ max_skip_streak_' >= current_skip_streak_'
              /\ max_skip_streak_' >= max_skip_streak_
              /\ last_infer_time_ms_' = last_infer_time_ms_]_vars

\* A run at a later time that ends a streak of two skips.
C18_Witness ==
    /\ g_last = "decide"
    /\ gd.should_infer
    /\ gd.frames_since_last_infer = 3
    /\ max_skip_streak_ = 2
    /\ current_skip_streak_ = 0
    /\ frames_since_last_infer_ = 0
    /\ last_infer_time_ms_ = g_args.t
    /\ g_args.t > 1


\* C19: for every job lane 3 pops, lane 3 calls the gating engine, and it
\* invokes the detector and publishes a snapshot for the job only when the
\* decision is run; on skip the job is dropped, with no detector call and no
\* publish.
C19_L3Gated ==
    \A i \in 1..Len(l3_log) :
        /\ l3_log[i].gated
        /\ (l3_log[i].detected \/ l3_log[i].published) => l3_log[i].run


\* C20: when start(cfg) is called with enable_laneK false for some K in 1..5,
\* no thread is launched for lane K and its input ring is never drained,
\* while every lane whose flag is true is launched.
C20_DisabledLaneNotLaunched ==
    (running_ /\ ~terminated) =>
        \A k \in 1..5 :
            IF k \in cfg_
            THEN handle[k] = "joinable"
            ELSE handle[k] = "empty" /\ lane_pc[k] = "off"

\* C21: a sensing call with a buffer of the wrong dimensions returns the
\* sentinel frame_id -1 (and lane 1, given the sentinel, fans nothing out
\* and goes on with the next frame): once such a call is made, the process
\* is still running and the call's result carries frame_id -1.
C21_MismatchReturnsSentinel ==
    (k_in.height # target_h \/ k_in.width # target_w) /\ nkernel > 0
        => k_pc # "aborted" /\ output.frame_id = -1

\* Frames push_frame put into the camera ring, and frames lane 1 has
\* carried through its last stage.
FramesAccepted == Len(assigned) - qdrop["cam"]
FramesDone == Len(SelectSeq(l1_log, LAMBDA e : e[1] = "up"))

C23_AgeAtMaxIsAbsent ==
    (nfuse > 0 /\ fu_in.snap.valid /\ fu_in.snap.age_ms = max_yolo_age_ms)
        => /\ fusion.adjusted_crack_score = fu_in.score
           /\ ~fusion.yolo_active
           /\ fusion.control_mods = NeutralModifiers

\* The sensing call that returned last.
LastCall == k_log[Len(k_log)]

\* C24: whenever the snapshot a sensing call reads is invalid, older than
\* max_age (200 ms) or of negative age, the call returns fused_crack equal
\* to raw_crack and reports the semantic input inactive.
C24_StaleSnapshotIgnored ==
    (k_log # <<>> /\ LastCall.out.frame_id >= 0)
        => LET e   == LastCall
               age == e.t - e.snap.timestamp_s
           IN  (~e.snap.valid \/ age > max_yolo_age_ms \/ age < 0)
                   => /\ FrEq(e.out.fused_crack_score, e.out.crack_score)
                      /\ e.out.yolo_active = 0

\* C25: every ControlDecision lane 1 produces is labelled CLEAR iff
\* fused_crack <= 0.10 and STOP iff fused_crack > 0.70, CAUTION in
\* (0.10, 0.40] and SLOW in (0.40, 0.70]; a score equal to a threshold takes
\* the label below it.
C25_ActionByThreshold ==
    decision.frame_id >= 0
        => LET c == decision.crack_score
           IN  /\ decision.action = "CLEAR" <=> ~FrGt(c, 10, 100)
               /\ decision.action = "STOP" <=> FrGt(c, 70, 100)
               /\ (FrGt(c, 10, 100) /\ ~FrGt(c, 40, 100))
                      => decision.action = "CAUTION"
               /\ (FrGt(c, 40, 100) /\ ~FrGt(c, 70, 100))
                      => decision.action = "SLOW"

\* C26: the first frame the sensing kernel processes has no temporal
\* reference: its result has on = off = 0, raw crack_score = 0 and
\* is_null_cycle set.
C26_FirstFrameIsNull ==
    \A i \in 1..Len(k_log) :
        k_log[i].out.frame_id = 0
            => /\ k_log[i].out.on_spike_count = 0
               /\ k_log[i].out.off_spike_count = 0
               /\ k_log[i].out.crack_score.n = 0
               /\ k_log[i].out.is_null_cycle = 1

\* C26 witness: the first frame processed was the two-halves frame, which
\* differs from the zeroed planes everywhere and has an edge in the bottom
\* third; a call of the wrong resolution had been turned away before it.
C26_Witness ==
    /\ Len(k_log) >= 2
    /\ k_log[1].out.frame_id = 0 - 1
    /\ k_log[2].out.frame_id = 0
    /\ k_log[2].frame = Split(50, 150)

\* C27: a frame byte-identical to the frame processed immediately before it
\* yields no events: on = 0, off = 0 and sparsity = 1.0; when both are the
\* uniform frame of value 128, crack_score is 0.0 as well and the decision
\* made of the result is labelled CLEAR.
C27_IdenticalFrameNoEvents ==
    /\ \A i \in 1..Len(k_log) :
         (k_log[i].out.frame_id >= 0 /\ k_log[i].frame = k_log[i].pred)
             => /\ k_log[i].out.on_spike_count = 0
                /\ k_log[i].out.off_spike_count = 0
                /\ k_log[i].out.sparsity.n = k_log[i].out.sparsity.d
    /\ (/\ k_log # <<>> /\ k_pc = "idle"
        /\ LastCall.out.frame_id >= 0
        /\ LastCall.frame = Uniform(128) /\ LastCall.pred = Uniform(128))
           => /\ LastCall.out.crack_score.n = 0
              /\ decision.action = "CLEAR"

\* C28: at the sensing resolution 416 x 234, with ON threshold 8 and lateral
\* inhibition radius 3, a uniform frame of value 150 that follows a uniform
\* frame of value 50 yields on > 30000 and off = 0.
C28_LargeDeltaCount ==
    \A i \in 1..Len(k_log) :
        (/\ k_log[i].out.frame_id >= 0
         /\ k_log[i].frame = Uniform(150)
         /\ k_log[i].pred = Uniform(50))
            => /\ k_log[i].out.on_spike_count > 30000
               /\ k_log[i].out.off_spike_count = 0

\* C29: for every frame processed after the first, on_spike_count +
\* off_spike_count is at most (sh - 2) * (sw - 2); for every frame processed,
\* sparsity is 1 - (on + off) / (sh * sw) and lies in [0, 1].
C29_CountsAndSparsityBounded ==
    \A i \in 1..Len(k_log) :
        LET o == k_log[i].out
            spikes == o.on_spike_count + o.off_spike_count
        IN  /\ o.frame_id >= 1
                => spikes <= (target_h - 2) * (target_w - 2)
            /\ o.frame_id >= 0
                => /\ FrEq(o.sparsity,
                           Fr(TOTAL_PIXELS(target_w, target_h) - spikes,
                              TOTAL_PIXELS(target_w, target_h)))
                   /\ o.sparsity.d > 0
                   /\ 0 <= o.sparsity.n
                   /\ o.sparsity.n <= o.sparsity.d

\* A frame after the first whose walk counted events of both signs.
C29_Witness ==
    \E i \in 1..Len(k_log) :
        /\ k_log[i].out.frame_id >= 1
        /\ k_log[i].out.on_spike_count > 0
        /\ k_log[i].out.off_spike_count > 0
        /\ k_log[i].out.sparsity.n < k_log[i].out.sparsity.d

\* C30: two sensing calls whose frames have identical BGR bytes and whose
\* predecessor frames are identical return identical (on, off, crack_score,
\* sparsity), whatever frames were processed and whatever snapshots were
\* published earlier in the run.
C30_SameInputsSameOutputs ==
    \A i, j \in 1..Len(k_log) :
        (/\ k_log[i].out.frame_id >= 0 /\ k_log[j].out.frame_id >= 0
         /\ k_log[i].frame = k_log[j].frame
         /\ k_log[i].pred = k_log[j].pred)
            => /\ k_log[i].out.on_spike_count = k_log[j].out.on_spike_count
               /\ k_log[i].out.off_spike_count = k_log[j].out.off_spike_count
               /\ FrEq(k_log[i].out.crack_score, k_log[j].out.crack_score)
               /\ FrEq(k_log[i].out.sparsity, k_log[j].out.sparsity)

\* Two calls with the same frame and the same predecessor and with events and
\* crack evidence, the later one after a snapshot publish the earlier one
\* did not see and after a frame that came between them.
C30_Witness ==
    \E i, j \in 1..Len(k_log) :
        /\ i + 1 < j
        /\ k_log[i].out.frame_id >= 1
        /\ k_log[j].out.frame_id >= 1
        /\ k_log[i].frame = k_log[j].frame
        /\ k_log[i].pred = k_log[j].pred
        /\ ~k_log[i].snap.valid
        /\ k_log[j].snap.valid
        /\ k_log[j].out.on_spike_count > 0
        /\ k_log[j].out.crack_score.n > 0

\* C31: starting from an empty bank, after one signature was registered, a
\* query with the descriptors that were registered yields matched = true and
\* a confidence in (0.99, 1.0].
C31_IdenticalQueryConfident ==
    (/\ sb_last.op = "query"
     /\ total_registrations_ = 1 /\ Len(signatures_) = 1
     /\ sb_last.queries = 1
     /\ sb_last.q = sb_reg)
        => /\ sb_last.match.matched
           /\ sb_last.match.confidence > 990
           /\ sb_last.match.confidence <= 1000

\* C32: while no new snapshot is published, a fuse() call that follows
\* another with the same raw crack score, both reading the snapshot at an age
\* of at most stale_decay_start, returns the same adjusted crack score and
\* the same yolo_active flag as the call before it.
C32_SameSnapshotSameFusion ==
    [][(/\ nfuse > 0 /\ nfuse' = nfuse + 1
        /\ fu_in'.score = fu_in.score
        /\ fu_in.snap.valid /\ fu_in'.snap.valid
        /\ fu_in'.snap.sequence_id = fu_in.snap.sequence_id
        /\ fu_in'.snap.hits = fu_in.snap.hits
        /\ fu_in'.snap.priority_detections = fu_in.snap.priority_detections
        /\ fu_in.snap.age_ms >= 0 /\ fu_in'.snap.age_ms >= 0
        /\ fu_in.snap.age_ms <= stale_decay_start_ms
        /\ fu_in'.snap.age_ms <= stale_decay_start_ms)
           => /\ fusion'.adjusted_crack_score = fusion.adjusted_crack_score
              /\ fusion'.yolo_active = fusion.yolo_active]_vars

\* C33: with a configuration that stays fixed and max_skip_frames = M >= 1,
\* there are never M or more skip outcomes in a row: current_skip_streak and
\* the largest streak seen stay at or below M - 1, as does the count of
\* frames since the last run, and the first decide() of an engine that is
\* new or was reset is a run.
C33_SkipRunsBounded ==
    /\ current_skip_streak_ <= max_skip_frames_ - 1
    /\ max_skip_streak_ <= max_skip_frames_ - 1
    /\ current_skip_streak_snapshot_ <= max_skip_frames_ - 1
    /\ frames_since_last_infer_ <= max_skip_frames_ - 1
    /\ (g_last = "decide" /\ g_args.fresh) => gd.should_infer

\* The longest run of skips M allows was taken, with the time limit out of
\* reach, and the call after it was made to run by the frame limit.
C33_Witness ==
    /\ max_skip_frames_ = 3 /\ max_skip_time_ms_ = 60
    /\ max_skip_streak_ = 2
    /\ g_last = "decide"
    /\ gd.reason = "MaxSkipFrames" /\ gd.should_infer
    /\ current_skip_streak_ = 0

\* C36: after a run decision the engine is no longer in its never-inferred
\* state: a decide() call with no force flag, a crack score below the
\* critical threshold, a matched signature of confidence at or above the
\* threshold, fewer than max_skip_frames frames since the run and less than
\* max_skip_time_ms elapsed since it returns HighConfidenceSkip, whatever
\* timestamp the run was recorded at, 0 included.
C36_RunEndsNeverInferred ==
    (/\ g_last = "decide"
     /\ ~g_args.fresh
     /\ ~g_args.force
     /\ g_args.crack < critical_crack_threshold_
     /\ g_args.matched
     /\ g_args.conf >= confidence_threshold_
     /\ g_args.frames < max_skip_frames_
     /\ g_args.ms_since < max_skip_time_ms_)
        => /\ gd.reason = "HighConfidenceSkip"
           /\ ~gd.should_infer

\* C34: whatever start(), stop() and _emergency_stop() calls are made,
\* start() never assigns a new lane thread to a thread handle that still
\* holds an unjoined thread (which std::thread answers with
\* std::terminate): the engine can be started again after any shutdown.
C34_RestartAfterAnyShutdown == ~terminated

\* C35: a lane that loads the published SignatureMatch or SemanticState
\* pointer never reads a record the publishing lane has already deleted,
\* however the publisher's exchange and delete interleave with the reader's
\* load and read.
C35_NoReadOfDeletedRecord == ~ss_read_deleted

\* The try_push and push_wait calls that have returned false.
CallsReturnedFalse == (pr_done - (Len(pushed) - pw_true)) + pw_false

\* C37: after any sequence of try_push, try_emplace and push_wait calls the
\* drop counter equals the number of those calls that returned false.
C37_DropsAreFailedCalls ==
    (pr_pc = "idle" /\ pw_pc = "idle") => drop_count_ = CallsReturnedFalse

\* C38: size_approx() and stats(), called from any thread while pushes and
\* pops go on, report a current size between 0 and N and a fill_ratio
\* between 0.0 and 1.0.
C38_SizeWithinCapacity ==
    /\ ob_stats.current_size >= 0 /\ ob_stats.current_size <= RingN
    /\ ob_stats.fill_ratio >= 0 /\ ob_stats.fill_ratio <= 100

\* C39: the ControlDecision and the UplinkPayload lane 1 makes from one
\* dequeued frame carry the same frame_id, the id push_frame gave that frame,
\* also after earlier frames were dropped at a full camera ring: lane 6 never
\* dispatches a CONTROL and an UPLINK job of one lane-1 iteration with
\* different frame_ids, and while lane 1 enqueues for a frame both ids are
\* the id of the job it dequeued.
C39_DecisionAndPayloadShareFrameId ==
    /\ \A i, j \in 1..Len(dispatched) :
         (/\ dispatched[i].type = "CONTROL"
          /\ dispatched[j].type = "UPLINK"
          /\ dispatched[i].src >= 0
          /\ dispatched[i].src = dispatched[j].src)
         => dispatched[i].fid = dispatched[j].fid
    /\ lane_pc[1] \in {"fan", "ctrl", "ctrl_w", "up"}
         => (l1_out = l1_job.fid /\ L1JobFid = l1_job.fid)

\* C40: once emergency landing has been triggered and until it is cancelled
\* the operating mode is EMERGENCY_SHUTDOWN, whatever failsafe status the
\* evaluate_and_update() calls in between compute.
C40_ShutdownHeldWhileLanding ==
    emergency_land_active_ => current_mode_ = "EMERGENCY_SHUTDOWN"

=============================================================================
